---- MODULE Spec2Model ----
(***************************************************************************)
(* Model of the clinical-trial protocol generator: the rules validator     *)
(* (app/services/validator.py), the protocol and CRF generators            *)
(* (app/services/generator.py), the LLM service wrappers                   *)
(* (app/services/llm_service.py) and the POST /api/v1/generate handler     *)
(* (main.py).                                                              *)
(***************************************************************************)
EXTENDS Integers, Sequences, FiniteSets, TLC

VARIABLES
    vin,                  \* input handed to one of the three validate_* functions
    vout,                 \* ValidationResult returned for vin (or NoResult)
    cfg,                  \* constructor flags and settings.openai_api_key
    last,                 \* outcome of the latest library-level generation run
    prev,                 \* outcome of the run before it
    generated_protocols,  \* main.py: in-memory result store keyed by request id
    rag_index,            \* rag_service.py: the ChromaDB collection keyed by document id
    response              \* last HTTP response of the API

vars == <<vin, vout, cfg, last, prev, generated_protocols, rag_index, response>>

----------------------------------------------------------------------------
(* Bounds of the model *)

\* longest age_range string that is enumerated
MaxAgeLen == 5
\* longest key_endpoints list handed to the validator
MaxEndpoints == 4
\* longest visit list / form list of a validator input
MaxValVisits == 2

----------------------------------------------------------------------------
(* Generic helpers *)

RECURSIVE SeqsUpTo(_, _)
SeqsUpTo(S, n) ==
    IF n = 0 THEN {<<>>}
    ELSE LET shorter == SeqsUpTo(S, n - 1)
         IN  shorter \cup {Append(s, x) : s \in {t \in shorter : Len(t) = n - 1}, x \in S}

Range(s) == {s[i] : i \in 1..Len(s)}

\* a text is a sequence of fragments, so that a formatted template is a value
Text(str) == <<str>>

CountOf(s, x) == Cardinality({i \in 1..Len(s) : s[i] = x})

----------------------------------------------------------------------------
(* Python string handling used by _validate_age_range.  A string is a      *)
(* sequence of one-character strings.                                      *)

Chars == {"0", "1", "2", "-", " ", "+", "x"}
Digits == {"0", "1", "2", "3", "4", "5", "6", "7", "8", "9"}

DigitVal(c) ==
    CASE c = "0" -> 0 [] c = "1" -> 1 [] c = "2" -> 2 [] c = "3" -> 3
      [] c = "4" -> 4 [] c = "5" -> 5 [] c = "6" -> 6 [] c = "7" -> 7
      [] c = "8" -> 8 [] c = "9" -> 9

\* str.split("-"): the pieces between the dashes (always at least one piece)
RECURSIVE SplitDash(_, _)
SplitDash(s, cur) ==
    IF s = <<>> THEN <<cur>>
    ELSE IF Head(s) = "-" THEN <<cur>> \o SplitDash(Tail(s), <<>>)
         ELSE SplitDash(Tail(s), Append(cur, Head(s)))

\* str.strip(): drop leading and trailing blanks
RECURSIVE LStrip(_)
LStrip(s) == IF s # <<>> /\ Head(s) = " " THEN LStrip(Tail(s)) ELSE s

RECURSIVE RStrip(_)
RStrip(s) == IF s # <<>> /\ s[Len(s)] = " " THEN RStrip(SubSeq(s, 1, Len(s) - 1)) ELSE s

Strip(s) == RStrip(LStrip(s))

\* the part of a numeral after an optional sign
Unsigned(s) == IF s # <<>> /\ Head(s) = "+" THEN Tail(s) ELSE s

\* int(s) succeeds: optional sign followed by at least one digit, digits only
IntParses(s) ==
    LET u == Unsigned(Strip(s))
    IN  u # <<>> /\ \A i \in 1..Len(u) : u[i] \in Digits

RECURSIVE DigitsValue(_, _)
DigitsValue(u, acc) ==
    IF u = <<>> THEN acc ELSE DigitsValue(Tail(u), 10 * acc + DigitVal(Head(u)))

\* int(s) for a string on which IntParses holds
IntValue(s) == DigitsValue(Unsigned(Strip(s)), 0)

----------------------------------------------------------------------------
(* ClinicalRulesValidator *)

max_primary == 3
min_inclusion == 2
min_exclusion == 1
minimum_weeks == 4

phase_minimums ==
    [p \in {"Phase 1", "Phase 2", "Phase 3", "Phase 4"} |->
        CASE p = "Phase 1" -> 20 [] p = "Phase 2" -> 40
          [] p = "Phase 3" -> 100 [] p = "Phase 4" -> 100]

\* phase_minimums.get(phase, 20)
PhaseMinimum(phase) == IF phase \in DOMAIN phase_minimums THEN phase_minimums[phase] ELSE 20

\* messages of validate_trial_spec
MsgSampleSize == "Sample size is below recommended minimum for phase"
MsgDuration == "Study duration is below minimum recommended duration"
MsgNoPrimary == "At least one primary endpoint is required"
MsgManyPrimary == "Number of primary endpoints exceeds recommended maximum (3)"
MsgInclusion == "Only few inclusion criteria provided"
MsgExclusion == "Only few exclusion criteria provided"
MsgAgeRange == "Invalid age range format"
MsgOneArm == "Only one treatment arm specified"
\* messages of validate_protocol
MsgSections == "Missing recommended sections"
MsgFewVisits == "Visit schedule must have at least 2 visits (baseline and follow-up)"
MsgNoBaseline == "Visit schedule must include a baseline visit (Week 0)"
MsgPower == "Statistical power below 80% may lead to inconclusive results"
MsgDSMB == "Consider establishing a Data Safety Monitoring Board (DSMB)"
\* messages of validate_crf_schema
MsgMissingForms == "Missing required forms"
MsgNoCdash == "Field missing CDASH variable mapping"
MsgVisitNoForms == "Visit has no forms assigned"
MsgNumericRules == "Numeric field should have validation rules (min/max)"

NoAge == [present |-> FALSE, text |-> <<>>]
AgeStr(t) == [present |-> TRUE, text |-> t]

\* Python truthiness of Optional[str]: None and "" are falsy
Truthy(age_range) == age_range.present /\ age_range.text # <<>>

_validate_age_range_MutNoUpper(text) ==
    IF "-" \notin Range(text) THEN FALSE
    ELSE LET parts == SplitDash(text, <<>>)
         IN  IF Len(parts) # 2 THEN FALSE
             ELSE IF ~IntParses(parts[1]) \/ ~IntParses(parts[2]) THEN FALSE
             ELSE 0 <= IntValue(parts[1]) /\ IntValue(parts[1]) < IntValue(parts[2])
_validate_age_range(text) ==
    IF "-" \notin Range(text) THEN FALSE
    ELSE LET parts == SplitDash(text, <<>>)
         IN  IF Len(parts) # 2 THEN FALSE
             ELSE IF ~IntParses(parts[1]) \/ ~IntParses(parts[2]) THEN FALSE
             ELSE LET min_age == IntValue(parts[1])
                      max_age == IntValue(parts[2])
                  IN  0 <= min_age /\ min_age < max_age /\ max_age <= 120

IsPrimary(ep) == ep.type = "primary"

\* valid = len(errors) == 0
ValidFlagMutWarnings(errors, warnings) == Len(errors) = 0 /\ Len(warnings) = 0
ValidFlag(errors, warnings) == Len(errors) = 0

ValidationResult(errors, warnings, info, rules_checked) ==
    [valid |-> ValidFlag(errors, warnings), errors |-> errors, warnings |-> warnings,
     info |-> info, rules_checked |-> rules_checked]

EndpointRuleMutAnyType(spec) ==
    IF Len(spec.key_endpoints) = 0 THEN [e |-> <<MsgNoPrimary>>, w |-> <<>>]
    ELSE IF Len(spec.key_endpoints) > max_primary THEN [e |-> <<>>, w |-> <<MsgManyPrimary>>]
    ELSE [e |-> <<>>, w |-> <<>>]
EndpointRule(spec) ==
    LET primary_endpoints == SelectSeq(spec.key_endpoints, IsPrimary)
    IN  IF Len(primary_endpoints) = 0 THEN [e |-> <<MsgNoPrimary>>, w |-> <<>>]
        ELSE IF Len(primary_endpoints) > max_primary THEN [e |-> <<>>, w |-> <<MsgManyPrimary>>]
        ELSE [e |-> <<>>, w |-> <<>>]

SampleSizeRuleMutError(spec) ==
    IF spec.sample_size < PhaseMinimum(spec.phase)
    THEN [e |-> <<MsgSampleSize>>, w |-> <<>>] ELSE [e |-> <<>>, w |-> <<>>]
SampleSizeRule(spec) ==
    IF spec.sample_size < PhaseMinimum(spec.phase)
    THEN [e |-> <<>>, w |-> <<MsgSampleSize>>] ELSE [e |-> <<>>, w |-> <<>>]

validate_trial_spec(spec) ==
    LET ss == SampleSizeRule(spec)
        w2 == IF spec.duration_weeks < minimum_weeks THEN <<MsgDuration>> ELSE <<>>
        ep == EndpointRule(spec)
        w4 == IF Len(spec.inclusion_criteria) < min_inclusion THEN <<MsgInclusion>> ELSE <<>>
        w5 == IF Len(spec.exclusion_criteria) < min_exclusion THEN <<MsgExclusion>> ELSE <<>>
        e6 == IF Truthy(spec.age_range) /\ ~_validate_age_range(spec.age_range.text)
              THEN <<MsgAgeRange>> ELSE <<>>
        w7 == IF Len(spec.treatment_arms) > 0 /\ Len(spec.treatment_arms) < 2
              THEN <<MsgOneArm>> ELSE <<>>
    IN  ValidationResult(ss.e \o ep.e \o e6,
                         ss.w \o w2 \o ep.w \o w4 \o w5 \o w7,
                         <<"Protocol validated for phase", "Target enrollment">>,
                         <<"sample_size_minimum", "duration_minimum",
                           "endpoint_requirements", "eligibility_criteria">>)


\* a visit of a visit schedule: a JSON item; keys lists the keys it carries
Visit(id, name, week) ==
    [dict |-> TRUE, keys |-> {"visit_id", "visit_name", "week", "window"},
     visit_id |-> id, visit_name |-> name, week |-> week]

\* v.get("week") == 0
WeekIsZero(v) == v.dict /\ "week" \in v.keys /\ v.week = 0

validate_protocol(protocol) ==
    LET required_section_ids == {"1.0", "2.0"}
        existing_ids == {protocol.sections[i].section_id : i \in 1..Len(protocol.sections)}
        missing == required_section_ids \ existing_ids
        w1 == IF missing # {} THEN <<MsgSections>> ELSE <<>>
        e2 == IF Len(protocol.visit_schedule) < 2 THEN <<MsgFewVisits>> ELSE <<>>
        has_baseline == \E i \in 1..Len(protocol.visit_schedule) :
                            WeekIsZero(protocol.visit_schedule[i])
        e3 == IF ~has_baseline THEN <<MsgNoBaseline>> ELSE <<>>
        w4 == IF protocol.statistical_plan.power < 80 THEN <<MsgPower>> ELSE <<>>
        w5 == IF ~protocol.safety_monitoring.dsmb THEN <<MsgDSMB>> ELSE <<>>
    IN  ValidationResult(e2 \o e3, w1 \o w4 \o w5,
                         <<"Protocol validated", "sections generated">>,
                         <<"required_sections", "visit_schedule",
                           "statistical_plan", "safety_monitoring">>)

\* the fields of all forms, in form order
RECURSIVE AllFields(_)
AllFields(forms) ==
    IF forms = <<>> THEN <<>> ELSE Head(forms).fields \o AllFields(Tail(forms))

\* one message per element of s that satisfies the test
RECURSIVE MsgPerField(_, _, _)
MsgPerField(fields, kind, msg) ==
    IF fields = <<>> THEN <<>>
    ELSE LET f == Head(fields)
             hit == IF kind = "cdash" THEN ~f.cdash
                    ELSE f.data_type = "number" /\ ~f.rules
         IN  (IF hit THEN <<msg>> ELSE <<>>) \o MsgPerField(Tail(fields), kind, msg)

RECURSIVE MsgPerEmptyVisit(_)
MsgPerEmptyVisit(visits) ==
    IF visits = <<>> THEN <<>>
    ELSE (IF Len(Head(visits).forms) = 0 THEN <<MsgVisitNoForms>> ELSE <<>>)
         \o MsgPerEmptyVisit(Tail(visits))

validate_crf_schema(crf_schema) ==
    LET required_forms == {"DM", "AE"}
        existing_forms == {crf_schema.forms[i].form_id : i \in 1..Len(crf_schema.forms)}
        missing == required_forms \ existing_forms
        e1 == IF missing # {} THEN <<MsgMissingForms>> ELSE <<>>
        w2 == IF crf_schema.cdash_compliance
              THEN MsgPerField(AllFields(crf_schema.forms), "cdash", MsgNoCdash) ELSE <<>>
        e3 == MsgPerEmptyVisit(crf_schema.visits)
        w4 == MsgPerField(AllFields(crf_schema.forms), "numeric", MsgNumericRules)
    IN  ValidationResult(e1 \o e3, w2 \o w4,
                         <<"CRF schema validated", "forms and visits">>,
                         <<"required_forms", "cdash_compliance",
                           "visit_form_assignments", "field_validations">>)


----------------------------------------------------------------------------
(* Inputs of the validator *)

Phases == {"Phase 1", "Phase 2", "Phase 3", "Phase 4"}
EndpointTypes == {"primary", "secondary", "exploratory"}
\* sample sizes around every phase minimum, durations around minimum_weeks
SampleSizes == {19, 20, 39, 40, 99, 100}
Durations == {3, 4}

ScoreName == "Change in total SCORE at week 12"
PlainName == "Overall survival"
\* "score" in name.lower()
ContainsScore(name) == name = ScoreName

Endpoint(type, name, long_desc) == [type |-> type, name |-> name, long_desc |-> long_desc]

TrialSpec(phase, size, weeks, endpoints, incl, excl, age, arms) ==
    [phase |-> phase, sample_size |-> size, duration_weeks |-> weeks,
     key_endpoints |-> endpoints, inclusion_criteria |-> incl,
     exclusion_criteria |-> excl, age_range |-> age, treatment_arms |-> arms,
     indication |-> "Hypertension", design |-> Text("randomized, double-blind")]

TwoInclusion == <<Text("Age 18-65"), Text("Confirmed diagnosis")>>
OneExclusion == <<Text("Pregnancy")>>
OnePrimary == <<Endpoint("primary", PlainName, FALSE)>>

\* every rule on numbers and list lengths, with one primary endpoint and no age range
NumericSpecs ==
    {TrialSpec(p, n, d, OnePrimary, i, e, NoAge, a) :
        p \in Phases, n \in SampleSizes, d \in Durations,
        i \in {<<>>, <<Text("Age 18-65")>>, TwoInclusion}, e \in {<<>>, OneExclusion},
        a \in {<<>>, <<Text("Drug X")>>, <<Text("Drug X"), Text("Placebo")>>}}

\* every endpoint list, with an absent, empty, good and bad age range
EndpointSpecs ==
    {TrialSpec("Phase 2", n, 12, eps, TwoInclusion, OneExclusion, age, <<>>) :
        n \in {39, 40},
        eps \in SeqsUpTo({Endpoint(t, PlainName, FALSE) : t \in EndpointTypes}, MaxEndpoints),
        age \in {NoAge, AgeStr(<<>>), AgeStr(<<"1", "-", "2">>), AgeStr(<<"2", "-", "1">>)}}

\* every age_range string, in a specification with nothing else to report
AgeSpecs ==
    {TrialSpec("Phase 2", 40, 12, OnePrimary, TwoInclusion, OneExclusion, AgeStr(t), <<>>) :
        t \in SeqsUpTo(Chars, MaxAgeLen)}

ValSpecs == NumericSpecs \cup EndpointSpecs \cup AgeSpecs

ValVisitItems ==
    {Visit("V0", "Screening", -1), Visit("V1", "Baseline/Day 1", 0), Visit("V2", "Week 4", 4),
     [dict |-> TRUE, keys |-> {"visit_id", "visit_name"}, visit_id |-> "V1",
      visit_name |-> "Baseline", week |-> 0]}

Section(id) == [section_id |-> id]

ValProtocols ==
    {[sections |-> secs, visit_schedule |-> vs,
      statistical_plan |-> [power |-> pw], safety_monitoring |-> [dsmb |-> d]] :
        secs \in {<<>>, <<Section("1.0")>>, <<Section("1.0"), Section("2.0")>>},
        vs \in SeqsUpTo(ValVisitItems, MaxValVisits),
        pw \in {0, 79, 80}, d \in BOOLEAN}

Field(id, type, rules, cdash) == [field_id |-> id, data_type |-> type, rules |-> rules, cdash |-> cdash]
Form(id, fields) == [form_id |-> id, fields |-> fields]
VisitDefinition(id, name, number, timepoint, forms) ==
    [visit_id |-> id, visit_name |-> name, visit_number |-> number,
     timepoint |-> timepoint, forms |-> forms]

ValForms ==
    {Form("DM", <<Field("AGE", "number", TRUE, TRUE)>>),
     Form("AE", <<Field("AE_TERM", "text", FALSE, TRUE)>>),
     Form("AE", <<Field("AE_TERM", "text", FALSE, TRUE), Field("AE_DAYS", "number", FALSE, FALSE)>>),
     Form("EFF", <<Field("TOTAL_SCORE", "number", TRUE, FALSE)>>),
     Form("TUMOR", <<Field("TUMOR_SIZE", "number", FALSE, FALSE)>>)}

ValVisitDefs ==
    {VisitDefinition("V0", "Screening", 1, "Screening", <<"DM", "VS", "AE">>),
     VisitDefinition("V1", "Baseline", 2, "Week 0", <<>>)}

ValCRFs ==
    {[forms |-> fs, visits |-> vs, cdash_compliance |-> c] :
        fs \in SeqsUpTo(ValForms, MaxValVisits),
        vs \in SeqsUpTo(ValVisitDefs, MaxValVisits), c \in BOOLEAN}

NotRun == [done |-> FALSE]
Returned(r) == [done |-> TRUE, result |-> r]


----------------------------------------------------------------------------
(* Outcomes of the external calls.  An LLM call either raises, returns     *)
(* text that holds no JSON, returns broken JSON, or returns JSON of some   *)
(* shape; a retrieval call raises or returns a list of examples.           *)

\* longest visit array an LLM response is given
MaxLLMVisits == 2

Raised(err) == [raised |-> TRUE, error |-> err]
Ok(v) == [raised |-> FALSE, value |-> v]

Objectives(keys, primary, secondary) ==
    [isdict |-> TRUE, keys |-> keys, primary |-> primary, secondary |-> secondary]
\* a JSON value that is no object (a list, a string, a number)
NotAnObject == [isdict |-> FALSE, keys |-> {}, primary |-> <<>>, secondary |-> <<>>]

LLMPrimary == Text("LLM: primary objective")
LLMSecondary == Text("LLM: secondary objectives")

ObjectiveOutcomes ==
    {[kind |-> "raise", value |-> NotAnObject], [kind |-> "text", value |-> NotAnObject],
     [kind |-> "json", value |-> Objectives({"primary", "secondary"}, LLMPrimary, LLMSecondary)],
     [kind |-> "json", value |-> Objectives({"secondary"}, <<>>, LLMSecondary)],
     [kind |-> "json", value |-> NotAnObject]}

\* raise: the call fails; text: no JSON; list: a JSON list; criteria_str: an object
\* whose "criteria" value is a string; no_list: an object holding no list
CriteriaOutcomes == {"raise", "text", "list", "criteria_str", "no_list"}

TextOutcomes == {"raise", "text"}

NoIdVisit ==
    [dict |-> TRUE, keys |-> {"visit_name", "week", "window"}, visit_id |-> "",
     visit_name |-> "Baseline", week |-> 0]
\* an array item that is no object
NotAVisit == [dict |-> FALSE, keys |-> {}, visit_id |-> "", visit_name |-> "", week |-> 0]

LLMVisitItems ==
    {Visit("V0", "Screening", -1), Visit("V1", "Baseline", 0), NoIdVisit, NotAVisit}

ArrayOutcome(kind, value) == [kind |-> kind, value |-> value]

VisitOutcomes ==
    {ArrayOutcome(k, <<>>) : k \in {"raise", "text", "badjson"}}
    \cup {ArrayOutcome("json", a) : a \in SeqsUpTo(LLMVisitItems, MaxLLMVisits)}

Assessment(id, name) ==
    [dict |-> TRUE, keys |-> {"assessment_id", "name", "description", "timing"},
     assessment_id |-> id, name |-> name]
NoIdAssessment ==
    [dict |-> TRUE, keys |-> {"name", "description"}, assessment_id |-> "", name |-> "Imaging"]

AssessmentOutcomes ==
    {ArrayOutcome(k, <<>>) : k \in {"raise", "text", "badjson"}}
    \cup {ArrayOutcome("json", a) :
            a \in {<<>>, <<Assessment("TUMOR", "Tumor Assessment")>>,
                   <<Assessment("DEMO", "Demographics"), Assessment("VS", "Vital Signs")>>,
                   <<Assessment("EFF", "Efficacy Assessment")>>,
                   <<NoIdAssessment>>}}

\* fields: a JSON array of field objects; badarray: an array whose items are no objects
FormOutcomes ==
    {[kind |-> "raise", n |-> 0], [kind |-> "text", n |-> 0], [kind |-> "badarray", n |-> 1],
     [kind |-> "fields", n |-> 0], [kind |-> "fields", n |-> 2]}

RagOutcomes == {"raise", "none", "one"}

\* uuid.uuid4().hex[:8]: any identifier
ProtocolIds == {"PROT-0A1B2C3D", "PROT-4E5F6A7B"}

----------------------------------------------------------------------------
(* LLMService: the three wrappers that catch every failure themselves *)

IndicationText(spec, prefix, suffix) == <<prefix, spec.indication, suffix>>

TemplatePrimary(spec) ==
    IndicationText(spec, "To evaluate the efficacy of the study intervention in patients with ", ".")
TemplateSecondary == Text("To assess the safety and tolerability of the study intervention.")

\* LLMService.generate_objectives
LLM_generate_objectives(spec, out) ==
    IF out.kind = "json" THEN out.value
    ELSE Objectives({"primary", "secondary"}, TemplatePrimary(spec), TemplateSecondary)

List(items) == [islist |-> TRUE, items |-> items]
\* a JSON value that is no list, handed on unchecked
NotAList == [islist |-> FALSE, items |-> <<>>]

LLMCriteria == <<Text("LLM: criterion 1"), Text("LLM: criterion 2")>>

\* LLMService.generate_inclusion_criteria
LLM_generate_inclusion_criteria(spec, out) ==
    CASE out = "list" -> List(LLMCriteria)
      [] out = "criteria_str" -> NotAList
      [] OTHER -> List(<<Text("Age >=18 years"),
                         IndicationText(spec, "Confirmed diagnosis of ", ""),
                         Text("Able to provide informed consent"),
                         Text("Adequate organ function")>>)

\* LLMService.generate_exclusion_criteria
LLM_generate_exclusion_criteria(spec, out) ==
    CASE out = "list" -> List(LLMCriteria)
      [] OTHER -> List(<<Text("Pregnancy or lactation"),
                         Text("Known hypersensitivity to study drug"),
                         Text("Participation in another clinical trial within 30 days")>>)


----------------------------------------------------------------------------
(* ProtocolTemplateGenerator *)

\* self.use_llm and self.llm_service: the flag was given and LLMService() found a key
GenLLM(c) == c.use_llm /\ c.api_key
\* self.use_rag and self.rag_service
GenRAG(c) == c.use_rag

_generate_objectives(spec, llm, o) ==
    IF llm THEN LLM_generate_objectives(spec, o.obj)
    ELSE Objectives({"primary", "secondary"}, TemplatePrimary(spec), TemplateSecondary)

_generate_inclusion_criteria(spec, llm, o) ==
    IF llm THEN LLM_generate_inclusion_criteria(spec, o.inc)
    ELSE IF spec.inclusion_criteria # <<>> THEN List(spec.inclusion_criteria)
    ELSE List(<<IndicationText(spec, "Adults aged 18-75 years with confirmed ", ""),
                Text("Willing and able to provide informed consent"),
                Text("Adequate organ function as defined by laboratory values")>>)

_generate_exclusion_criteria(spec, llm, o) ==
    IF llm THEN LLM_generate_exclusion_criteria(spec, o.exc)
    ELSE IF spec.exclusion_criteria # <<>> THEN List(spec.exclusion_criteria)
    ELSE List(<<Text("Pregnant or breastfeeding women"),
                Text("Known hypersensitivity to study drug or excipients"),
                Text("Severe comorbid conditions that would interfere with study participation")>>)

LLMDesign == Text("LLM: study design description")

_generate_study_design(spec, llm, o) ==
    IF llm /\ o.design = "text" THEN LLMDesign ELSE spec.design

OriginalDescription(ep) == IF ep.long_desc THEN Text("a description of 50 characters or more") ELSE <<>>
LLMDescription == Text("LLM: endpoint description")

\* the LLM is asked only for endpoints whose description is missing or short
EndpointAsked(ep, llm) == llm /\ ~ep.long_desc

_generate_endpoints(spec, llm, o) ==
    [i \in 1..Len(spec.key_endpoints) |->
        LET ep == spec.key_endpoints[i]
        IN  [type |-> ep.type, name |-> ep.name,
             description |-> IF EndpointAsked(ep, llm) /\ o.ep[i] = "text"
                             THEN LLMDescription ELSE OriginalDescription(ep)]]

\* range(4, duration_weeks + 1, 4): the follow-up visits from number visit_num on
RECURSIVE FollowUpVisits(_, _, _)
FollowUpVisits(week, duration_weeks, visit_num) ==
    IF week > duration_weeks THEN <<>>
    ELSE <<Visit("V" \o ToString(visit_num), "Week " \o ToString(week), week)>>
         \o FollowUpVisits(week + 4, duration_weeks, visit_num + 1)

TemplateVisitScheduleMutNoEnd(duration_weeks) ==
    <<Visit("V0", "Screening", -1), Visit("V1", "Baseline/Day 1", 0)>>
    \o FollowUpVisits(4, duration_weeks, 2)
\* the fallback of _generate_visit_schedule
TemplateVisitSchedule(duration_weeks) ==
    LET visits == <<Visit("V0", "Screening", -1), Visit("V1", "Baseline/Day 1", 0)>>
                  \o FollowUpVisits(4, duration_weeks, 2)
    IN  IF duration_weeks \notin {visits[i].week : i \in 1..Len(visits)}
        THEN Append(visits, Visit("V" \o ToString(Len(visits)),
                                  "End of Study (Week " \o ToString(duration_weeks) \o ")",
                                  duration_weeks))
        ELSE visits

_generate_visit_schedule(spec, llm, o) ==
    IF llm /\ o.visits.kind = "json" THEN o.visits.value
    ELSE TemplateVisitSchedule(spec.duration_weeks)

\* for endpoint in spec.key_endpoints: append SCORE_<len(assessments)> for a score endpoint
RECURSIVE AddScoreAssessments(_, _)
AddScoreAssessments(assessments, endpoints) ==
    IF endpoints = <<>> THEN assessments
    ELSE AddScoreAssessments(
             IF ContainsScore(Head(endpoints).name)
             THEN Append(assessments, Assessment("SCORE_" \o ToString(Len(assessments)),
                                                 "Clinical Score Assessment"))
             ELSE assessments,
             Tail(endpoints))

TemplateAssessments(spec) ==
    AddScoreAssessments(<<Assessment("DEMO", "Demographics"), Assessment("VITAL", "Vital Signs"),
                          Assessment("AE", "Adverse Events"), Assessment("LAB", "Laboratory Tests")>>,
                        spec.key_endpoints)

_generate_assessments(spec, llm, o) ==
    IF llm /\ o.assessments.kind = "json" THEN o.assessments.value
    ELSE TemplateAssessments(spec)

\* objectives.get(...) raises on a value that is no mapping
_generate_protocol_sections(spec, llm, objectives) ==
    IF ~objectives.isdict THEN Raised("AttributeError: objectives.get")
    ELSE Ok(<<[section_id |-> "1.0", title |-> "Synopsis", provenance |-> "template_with_user_input"],
              [section_id |-> "2.0", title |-> "Study Objectives",
               provenance |-> IF llm THEN "llm_generated" ELSE "template"]>>)

Call(section, ok) == [section |-> section, ok |-> ok]

\* one entry per endpoint the LLM is asked about
RECURSIVE EndpointCalls(_, _, _, _)
EndpointCalls(endpoints, llm, outs, i) ==
    IF i > Len(endpoints) THEN <<>>
    ELSE (IF EndpointAsked(endpoints[i], llm) THEN <<Call("endpoints", outs[i] = "text")>> ELSE <<>>)
         \o EndpointCalls(endpoints, llm, outs, i + 1)

\* the external calls generate_structured_protocol attempts, in order
ProtocolCalls(spec, c, o) ==
    (IF GenRAG(c) THEN <<Call("retrieval", o.rag # "raise")>> ELSE <<>>)
    \o (IF GenLLM(c)
        THEN <<Call("objectives", o.obj.kind = "json"),
               Call("inclusion_criteria", o.inc \in {"list", "criteria_str"}),
               Call("exclusion_criteria", o.exc = "list"),
               Call("study_design", o.design = "text")>>
             \o EndpointCalls(spec.key_endpoints, TRUE, o.ep, 1)
             \o <<Call("visit_schedule", o.visits.kind = "json"),
                  Call("assessments", o.assessments.kind = "json")>>
        ELSE <<>>)

AllSections ==
    <<"objectives", "inclusion_criteria", "exclusion_criteria", "study_design",
      "endpoints", "visit_schedule", "assessments">>

generate_structured_protocol(spec, c, o) ==
    LET llm == GenLLM(c)
        similar == IF GenRAG(c) /\ o.rag = "one" THEN 1 ELSE 0
        objectives == _generate_objectives(spec, llm, o)
        sections == _generate_protocol_sections(spec, llm, objectives)
    IN  IF sections.raised THEN sections
        ELSE Ok([protocol_id |-> o.pid,
                 phase |-> spec.phase, indication |-> spec.indication,
                 study_design |-> _generate_study_design(spec, llm, o),
                 sample_size |-> spec.sample_size, duration_weeks |-> spec.duration_weeks,
                 treatment_arms |-> IF spec.treatment_arms # <<>> THEN spec.treatment_arms
                                    ELSE <<Text("Intervention"), Text("Control")>>,
                 objectives |-> objectives,
                 endpoints |-> _generate_endpoints(spec, llm, o),
                 inclusion_criteria |-> _generate_inclusion_criteria(spec, llm, o),
                 exclusion_criteria |-> _generate_exclusion_criteria(spec, llm, o),
                 visit_schedule |-> _generate_visit_schedule(spec, llm, o),
                 assessments |-> _generate_assessments(spec, llm, o),
                 statistical_plan |-> [sample_size |-> spec.sample_size, power |-> 80],
                 safety_monitoring |-> [dsmb |-> TRUE],
                 sections |-> sections.value,
                 generation_method |-> IF llm THEN (IF similar > 0 THEN "llm_enhanced" ELSE "llm_only")
                                       ELSE IF similar > 0 THEN "rag_enhanced" ELSE "template_based",
                 rag_protocols_used |-> similar,
                 llm_enhanced_sections |-> IF llm THEN AllSections ELSE <<>>])


----------------------------------------------------------------------------
(* CRFGenerator *)

\* CRFGenerator.__init__: an LLMService of its own whenever a key is configured
CrfLLM(c) == c.api_key

_generate_standard_forms_MutNoDM(spec) ==
    <<Form("VS", <<Field("VS_DATE", "date", FALSE, TRUE), Field("SYSBP", "number", TRUE, TRUE)>>),
      Form("AE", <<Field("AE_TERM", "text", FALSE, TRUE), Field("AE_START", "date", FALSE, TRUE)>>)>>
\* CRFGenerator._generate_standard_forms
_generate_standard_forms(spec) ==
    LET dm == Form("DM", <<Field("SUBJID", "text", FALSE, TRUE), Field("AGE", "number", TRUE, TRUE),
                           Field("SEX", "radio", TRUE, TRUE), Field("RACE", "dropdown", FALSE, TRUE)>>)
        vs == Form("VS", <<Field("VS_DATE", "date", FALSE, TRUE), Field("SYSBP", "number", TRUE, TRUE),
                           Field("DIABP", "number", TRUE, TRUE), Field("HR", "number", TRUE, TRUE),
                           Field("TEMP", "number", TRUE, TRUE)>>)
        ae == Form("AE", <<Field("AE_TERM", "text", FALSE, TRUE), Field("AE_START", "date", FALSE, TRUE),
                           Field("AE_SEV", "dropdown", TRUE, TRUE), Field("AE_REL", "dropdown", TRUE, TRUE)>>)
        eff == Form("EFF", <<Field("SCORE_DATE", "date", FALSE, FALSE),
                             Field("TOTAL_SCORE", "number", TRUE, FALSE)>>)
        has_score_endpoint == \E i \in 1..Len(spec.key_endpoints) :
                                  ContainsScore(spec.key_endpoints[i].name)
    IN  <<dm, vs, ae>> \o (IF has_score_endpoint THEN <<eff>> ELSE <<>>)

BaselineAssessmentIds == {"DEMO", "VITAL", "AE", "LAB"}

\* assessment.get('assessment_id', default)
AssessmentId(a, default) == IF "assessment_id" \in a.keys THEN a.assessment_id ELSE default

\* the assessments a form is derived for
NeedsForm(a) == AssessmentId(a, "") \notin BaselineAssessmentIds

LLMFields(n) ==
    SubSeq(<<Field("LLM_TEXT", "text", FALSE, FALSE), Field("LLM_NUMBER", "number", FALSE, FALSE)>>, 1, n)

_generate_assessment_form_MutGenericForm(spec, assessment, llm, out) ==
    [emitted |-> TRUE,
     form |-> Form(AssessmentId(assessment, "CUSTOM"),
                   IF llm /\ out.kind = "fields" THEN LLMFields(out.n) ELSE <<>>)]
\* the form, or no form (emitted = FALSE) when the LLM is absent or its answer unusable
_generate_assessment_form(spec, assessment, llm, out) ==
    IF llm /\ out.kind = "fields"
    THEN [emitted |-> TRUE, form |-> Form(AssessmentId(assessment, "CUSTOM"), LLMFields(out.n))]
    ELSE [emitted |-> FALSE]

\* the loop over protocol.assessments; outs holds one LLM outcome per derived form
RECURSIVE AssessmentForms(_, _, _, _)
AssessmentForms(spec, assessments, llm, outs) ==
    IF assessments = <<>> THEN <<>>
    ELSE LET a == Head(assessments)
         IN  IF ~NeedsForm(a) THEN AssessmentForms(spec, Tail(assessments), llm, outs)
             ELSE LET f == _generate_assessment_form(spec, a, llm, Head(outs))
                  IN  (IF f.emitted THEN <<f.form>> ELSE <<>>)
                      \o AssessmentForms(spec, Tail(assessments), llm, Tail(outs))

_generate_forms_from_assessments(spec, protocol, llm, outs) ==
    IF \E i \in 1..Len(protocol.assessments) : ~protocol.assessments[i].dict
    THEN Raised("AttributeError: assessment.get")
    ELSE Ok(_generate_standard_forms(spec)
            \o AssessmentForms(spec, protocol.assessments, llm, outs))

\* visit["visit_id"], visit["visit_name"], visit['week'] raise on a missing key
VisitUsable(v) == v.dict /\ {"visit_id", "visit_name", "week"} \subseteq v.keys

_generate_visit_definitions(visit_schedule) ==
    IF \E i \in 1..Len(visit_schedule) : ~VisitUsable(visit_schedule[i])
    THEN Raised("KeyError or TypeError: visit[...]")
    ELSE Ok([i \in 1..Len(visit_schedule) |->
                LET visit == visit_schedule[i]
                    forms == (IF visit.visit_id = "V0" THEN <<"DM">> ELSE <<>>)
                             \o <<"VS", "AE">>
                             \o (IF visit.visit_id # "V0" THEN <<"EFF">> ELSE <<>>)
                IN  VisitDefinition(visit.visit_id, visit.visit_name, i,
                                    IF visit.week >= 0 THEN "Week " \o ToString(visit.week)
                                    ELSE "Screening",
                                    forms)])

generate_crf_schema(spec, protocol, llm, outs) ==
    LET forms == _generate_forms_from_assessments(spec, protocol, llm, outs)
        visits == _generate_visit_definitions(protocol.visit_schedule)
    IN  IF forms.raised THEN forms
        ELSE IF visits.raised THEN visits
        ELSE Ok([study_id |-> protocol.protocol_id, forms |-> forms.value,
                 visits |-> visits.value, cdash_compliance |-> TRUE])

\* the LLM calls generate_crf_schema attempts: one per derived form, while no item raises
RECURSIVE FormCalls(_, _, _)
FormCalls(assessments, llm, outs) ==
    IF assessments = <<>> \/ ~Head(assessments).dict THEN <<>>
    ELSE IF ~NeedsForm(Head(assessments)) THEN FormCalls(Tail(assessments), llm, outs)
    ELSE (IF llm THEN <<Call("crf_form", Head(outs).kind = "fields")>> ELSE <<>>)
         \o FormCalls(Tail(assessments), llm, Tail(outs))

\* how many forms are derived from a list of assessments
NumDerived(assessments) == Len(SelectSeq(assessments, NeedsForm))


----------------------------------------------------------------------------
(* ProtocolExporter.  A document is modelled by the elements the exporter writes;
   a text is a sequence of pieces, of which the quote, the comma and the line
   break are the ones a CSV reader acts on *)

Quote == "\""
Comma == ","
LineBreak == "\n"

ExportFormats == {"odm_xml", "fhir_json", "csv", "json"}

\* fd.get('field_label', 'Field'): the label is the LLM's text, taken as it comes;
\* the second field of an LLM answer is labelled  Lesion "size"<line break>(mm)
field_label(field) ==
    IF field.field_id = "LLM_NUMBER"
    THEN <<"Lesion ", Quote, "size", Quote, LineBreak, "(mm)">>
    ELSE <<"Label of ", field.field_id>>

\* json.dumps(field.validation_rules) if field.validation_rules else ""
ValidationJson(field) ==
    IF field.rules THEN <<"{", Quote, "min", Quote, ": 0", Comma, " ", Quote, "max", Quote, ": 200}">>
    ELSE <<>>

RECURSIVE Flatten(_, _)
\* sep.join(parts)
Flatten(parts, sep) ==
    IF parts = <<>> THEN <<>>
    ELSE IF Len(parts) = 1 THEN Head(parts)
    ELSE Head(parts) \o <<sep>> \o Flatten(Tail(parts), sep)

\* f'"{form.form_id}","{form.form_name}",...,"{validation}"': every value is put
\* between quotes as it is, nothing in it is escaped (field.required is written as
\* the word True or False, one plain piece either way)
CsvLine(form, field) ==
    LET Quoted(text) == <<Quote>> \o text \o <<Quote>>
    IN  Flatten(<<Quoted(<<form.form_id>>), Quoted(<<"Name of ", form.form_id>>),
                  Quoted(<<field.field_id>>), Quoted(<<"name_of_", field.field_id>>),
                  Quoted(field_label(field)), Quoted(<<field.data_type>>),
                  Quoted(<<"True">>),
                  Quoted(IF field.cdash THEN <<"CDASH.", field.field_id>> ELSE <<>>),
                  Quoted(<<>>), Quoted(ValidationJson(field))>>, Comma)

CsvHeader ==
    Flatten(<<<<"Form ID">>, <<"Form Name">>, <<"Field ID">>, <<"Field Name">>, <<"Field Label">>,
              <<"Data Type">>, <<"Required">>, <<"CDASH Variable">>, <<"SDTM Variable">>,
              <<"Validation Rules">>>>, Comma)

RECURSIVE CsvLines(_)
\* for form in crf_schema.forms: for field in form.fields: csv_lines.append(...)
CsvLines(forms) ==
    IF forms = <<>> THEN <<>>
    ELSE [j \in 1..Len(Head(forms).fields) |-> CsvLine(Head(forms), Head(forms).fields[j])]
         \o CsvLines(Tail(forms))

_export_csv(crf_schema) ==
    [format |-> "csv",
     content |-> Flatten(<<CsvHeader>> \o CsvLines(crf_schema.forms), LineBreak),
     filename |-> <<crf_schema.study_id, "_DataDictionary.csv">>]

\* the pieces the reader is run over in one stretch
CsvStretch == 32

\* one step of the reader of the standard library: the state after the piece t and
\* whether t ended a record.  A record ends at a line break outside a quoted
\* field; a quote inside a quoted field ends the quoting unless a quote follows
CsvStep(state, t) ==
    CASE state \in {"start_record", "start_field"} ->
            IF t = Quote THEN [state |-> "in_quoted_field", n |-> 0]
            ELSE IF t = Comma THEN [state |-> "start_field", n |-> 0]
            ELSE IF t = LineBreak THEN [state |-> "start_record", n |-> 1]
            ELSE [state |-> "in_field", n |-> 0]
      [] state = "in_field" ->
            IF t = Comma THEN [state |-> "start_field", n |-> 0]
            ELSE IF t = LineBreak THEN [state |-> "start_record", n |-> 1]
            ELSE [state |-> "in_field", n |-> 0]
      [] state = "in_quoted_field" ->
            IF t = Quote THEN [state |-> "quote_in_quoted_field", n |-> 0]
            ELSE [state |-> "in_quoted_field", n |-> 0]
      [] state = "quote_in_quoted_field" ->
            IF t = Quote THEN [state |-> "in_quoted_field", n |-> 0]
            ELSE IF t = Comma THEN [state |-> "start_field", n |-> 0]
            ELSE IF t = LineBreak THEN [state |-> "start_record", n |-> 1]
            ELSE [state |-> "in_field", n |-> 0]

RECURSIVE CsvRun(_, _, _, _)
\* the reader run over tokens[lo..hi] from the state and the record count of acc
\* (a count is never negative: the test makes acc known before the run goes on)
CsvRun(tokens, lo, hi, acc) ==
    IF acc.n < 0 \/ lo > hi THEN acc
    ELSE LET step == CsvStep(acc.state, tokens[lo])
         IN  CsvRun(tokens, lo + 1, hi, [state |-> step.state, n |-> acc.n + step.n])

RECURSIVE CsvRecords(_, _, _)
\* the reader run over the whole text, a stretch of CsvStretch pieces at a time
CsvRecords(tokens, lo, acc) ==
    IF acc.n < 0 \/ lo > Len(tokens) THEN acc
    ELSE LET hi == IF lo + CsvStretch - 1 < Len(tokens) THEN lo + CsvStretch - 1 ELSE Len(tokens)
         IN  CsvRecords(tokens, hi + 1, CsvRun(tokens, lo, hi, acc))

\* rows = list(csv.reader(io.StringIO(csv_text))); len(rows): the text's end ends a
\* record that has begun
CsvRowCount(content) ==
    LET run == CsvRecords(content, 1, [state |-> "start_record", n |-> 0])
    IN  run.n + (IF run.state = "start_record" THEN 0 ELSE 1)

_map_datatype_to_odm(data_type) ==
    CASE data_type = "number" -> "integer"
      [] data_type \in {"date", "datetime"} -> data_type
      [] OTHER -> "text"

_map_datatype_to_fhir(data_type) ==
    CASE data_type = "text" -> "string"
      [] data_type = "number" -> "decimal"
      [] data_type = "date" -> "date"
      [] data_type = "datetime" -> "dateTime"
      [] data_type \in {"dropdown", "checkbox", "radio"} -> "choice"
      [] OTHER -> "string"

RECURSIVE ItemDefs(_)
\* for form in crf_schema.forms: for field in form.fields: SubElement(metadata, "ItemDef")
ItemDefs(forms) ==
    IF forms = <<>> THEN <<>>
    ELSE [j \in 1..Len(Head(forms).fields) |->
            [OID |-> <<"IT.", Head(forms).fields[j].field_id>>,
             DataType |-> _map_datatype_to_odm(Head(forms).fields[j].data_type)]]
         \o ItemDefs(Tail(forms))

\* the MetaDataVersion element: the children written for the protocol when
\* include_protocol, and the definitions written for the CRF when include_crf
_export_odm_xml(protocol, crf_schema, include_protocol, include_crf) ==
    LET visits == crf_schema.visits
        forms == crf_schema.forms
        metadata ==
            [OID |-> <<"MDV.", protocol.protocol_id, ".1.0">>,
             Protocol |-> IF include_protocol
                          THEN <<[StudyEventRef |->
                                    [i \in 1..Len(visits) |-> <<"SE.", visits[i].visit_id>>]]>>
                          ELSE <<>>,
             StudyEventDef |-> IF include_protocol
                               THEN [i \in 1..Len(visits) |->
                                       [OID |-> <<"SE.", visits[i].visit_id>>,
                                        FormRef |-> [j \in 1..Len(visits[i].forms) |->
                                                       <<"FORM.", visits[i].forms[j]>>]]]
                               ELSE <<>>,
             FormDef |-> IF include_crf
                         THEN [i \in 1..Len(forms) |->
                                 [OID |-> <<"FORM.", forms[i].form_id>>,
                                  ItemGroupRef |-> <<"IG.", forms[i].form_id>>]]
                         ELSE <<>>,
             ItemGroupDef |-> IF include_crf
                              THEN [i \in 1..Len(forms) |->
                                      [OID |-> <<"IG.", forms[i].form_id>>,
                                       ItemRef |-> [j \in 1..Len(forms[i].fields) |->
                                                      <<"IT.", forms[i].fields[j].field_id>>]]]
                              ELSE <<>>,
             ItemDef |-> IF include_crf THEN ItemDefs(forms) ELSE <<>>]
    IN  [format |-> "odm_xml",
         content |-> [Study |-> protocol.protocol_id, MetaDataVersion |-> metadata],
         filename |-> <<protocol.protocol_id, "_ODM.xml">>]

FhirResourcesMutAlwaysStudy(research_study, questionnaires, include_protocol, include_crf) ==
    <<research_study>> \o (IF include_crf THEN questionnaires ELSE <<>>)
\* resources = []; if include_protocol: resources.append(research_study);
\* if include_crf: for form in crf_schema.forms: resources.append(questionnaire)
FhirResources(research_study, questionnaires, include_protocol, include_crf) ==
    (IF include_protocol THEN <<research_study>> ELSE <<>>)
    \o (IF include_crf THEN questionnaires ELSE <<>>)

\* the Bundle: json.dumps of the resources in the order they were appended
_export_fhir_json(protocol, crf_schema, include_protocol, include_crf) ==
    LET forms == crf_schema.forms
        research_study ==
            [resourceType |-> "ResearchStudy", id |-> protocol.protocol_id,
             status |-> "active", phase |-> protocol.phase]
        Questionnaire(form) ==
            [resourceType |-> "Questionnaire", id |-> <<protocol.protocol_id, "-", form.form_id>>,
             status |-> "active",
             item |-> [j \in 1..Len(form.fields) |->
                         [linkId |-> form.fields[j].field_id,
                          text |-> field_label(form.fields[j]),
                          type |-> _map_datatype_to_fhir(form.fields[j].data_type)]]]
        resources == FhirResources(research_study,
                                   [i \in 1..Len(forms) |-> Questionnaire(forms[i])],
                                   include_protocol, include_crf)
    IN  [format |-> "fhir_json",
         content |-> [resourceType |-> "Bundle", type |-> "collection",
                      entry |-> [i \in 1..Len(resources) |-> [resource |-> resources[i]]]],
         filename |-> <<protocol.protocol_id, "_FHIR.json">>]

_export_json(protocol, crf_schema, include_protocol, include_crf) ==
    [format |-> "json",
     content |-> [study_id |-> protocol.protocol_id,
                  protocol |-> IF include_protocol THEN <<protocol>> ELSE <<>>,
                  crf_schema |-> IF include_crf THEN <<crf_schema>> ELSE <<>>],
     filename |-> <<protocol.protocol_id, "_Export.json">>]

\* ProtocolExporter.export: the CSV data dictionary is given the CRF schema alone
export(protocol, crf_schema, format, include_protocol, include_crf) ==
    CASE format = "odm_xml" -> _export_odm_xml(protocol, crf_schema, include_protocol, include_crf)
      [] format = "fhir_json" -> _export_fhir_json(protocol, crf_schema, include_protocol, include_crf)
      [] format = "csv" -> _export_csv(crf_schema)
      [] format = "json" -> _export_json(protocol, crf_schema, include_protocol, include_crf)

----------------------------------------------------------------------------
(* Inputs and outcomes of a generation run *)

GenEndpointLists ==
    {<<Endpoint("primary", PlainName, FALSE)>>,
     <<Endpoint("primary", ScoreName, FALSE), Endpoint("secondary", PlainName, TRUE)>>,
     <<Endpoint("secondary", PlainName, FALSE)>>}

GenSpecs ==
    {TrialSpec("Phase 2", 100, d, eps, c[1], c[2], NoAge, <<>>) :
        d \in {2, 8}, eps \in GenEndpointLists,
        c \in {<<<<>>, <<>>>>, <<TwoInclusion, OneExclusion>>}}

Unused == "unused"

\* the LLM outcomes of one run.  Every section generator reads only its own call, so
\* the outcomes are enumerated in two families: every combination for the text
\* sections with the two array sections failing, and every combination for the
\* two array sections with the text sections all failing or all succeeding.
LLMOracles(spec) ==
    [obj : ObjectiveOutcomes, inc : CriteriaOutcomes, exc : CriteriaOutcomes,
     design : TextOutcomes, ep : [1..Len(spec.key_endpoints) -> TextOutcomes],
     visits : {ArrayOutcome("raise", <<>>)}, assessments : {ArrayOutcome("raise", <<>>)}]
    \cup
    [obj : {[kind |-> "json", value |-> Objectives({"primary", "secondary"}, LLMPrimary, LLMSecondary)]},
     inc : {"list"}, exc : {"list"}, design : {"text"},
     ep : {[i \in 1..Len(spec.key_endpoints) |-> "text"]},
     visits : VisitOutcomes, assessments : AssessmentOutcomes]
    \cup
    [obj : {[kind |-> "raise", value |-> NotAnObject]},
     inc : {"raise"}, exc : {"raise"}, design : {"raise"},
     ep : {[i \in 1..Len(spec.key_endpoints) |-> "raise"]},
     visits : VisitOutcomes, assessments : AssessmentOutcomes]

NoLLMCall(spec) ==
    [obj |-> [kind |-> Unused, value |-> NotAnObject], inc |-> Unused, exc |-> Unused,
     design |-> Unused, ep |-> [i \in 1..Len(spec.key_endpoints) |-> Unused],
     visits |-> ArrayOutcome(Unused, <<>>), assessments |-> ArrayOutcome(Unused, <<>>)]

Oracle(l, r, id) ==
    [rag |-> r, obj |-> l.obj, inc |-> l.inc, exc |-> l.exc, design |-> l.design, ep |-> l.ep,
     visits |-> l.visits, assessments |-> l.assessments, pid |-> id]

\* one outcome for every external call generate_structured_protocol can make
GenOracles(spec, c) ==
    {Oracle(l, r, id) :
        l \in IF GenLLM(c) THEN LLMOracles(spec) ELSE {NoLLMCall(spec)},
        r \in IF GenRAG(c) THEN RagOutcomes ELSE {Unused},
        id \in ProtocolIds}

\* one outcome for every form CRFGenerator derives with its LLM
FormOracles(llm, n) ==
    [1..n -> IF llm THEN FormOutcomes ELSE {[kind |-> Unused, n |-> 0]}]

NotCalled == [called |-> FALSE]
NoRun == [done |-> FALSE]

\* protocol = generator.generate_structured_protocol(spec)
\* crf = crf_generator.generate_crf_schema(spec, protocol)
RunOutcome(spec, c, o, outs) ==
    LET p == generate_structured_protocol(spec, c, o)
    IN  [done |-> TRUE, spec |-> spec, protocol |-> p,
         crf |-> IF p.raised THEN NotCalled
                 ELSE [called |-> TRUE, result |-> generate_crf_schema(spec, p.value, CrfLLM(c), outs)],
         calls |-> ProtocolCalls(spec, c, o)
                   \o (IF p.raised THEN <<>> ELSE FormCalls(p.value.assessments, CrfLLM(c), outs))]

\* the number of forms to derive once the protocol is known (none if it raised)
DerivedCount(spec, c, o) ==
    LET p == generate_structured_protocol(spec, c, o)
    IN  IF p.raised THEN 0 ELSE NumDerived(p.value.assessments)

----------------------------------------------------------------------------
(* Actions *)

Idle == [use_rag |-> FALSE, use_llm |-> FALSE, api_key |-> FALSE]
NoResponse == [status |-> 0]
EmptyStore == <<>>
EmptyIndex == <<>>

ValidateTrialSpec ==
    /\ vin.kind = "spec" /\ ~vout.done
    /\ vout' = Returned(validate_trial_spec(vin.spec))
    /\ UNCHANGED <<vin, cfg, last, prev, generated_protocols, rag_index, response>>

ValidateProtocol ==
    /\ vin.kind = "protocol" /\ ~vout.done
    /\ vout' = Returned(validate_protocol(vin.protocol))
    /\ UNCHANGED <<vin, cfg, last, prev, generated_protocols, rag_index, response>>

ValidateCRFSchema ==
    /\ vin.kind = "crf" /\ ~vout.done
    /\ vout' = Returned(validate_crf_schema(vin.crf))
    /\ UNCHANGED <<vin, cfg, last, prev, generated_protocols, rag_index, response>>

\* exporter.export(protocol, crf_schema, format, include_protocol, include_crf)
Export ==
    /\ vin.kind = "export" /\ ~vout.done
    /\ vout' = Returned(export(vin.protocol, vin.crf_schema, vin.format,
                               vin.include_protocol, vin.include_crf))
    /\ UNCHANGED <<vin, cfg, last, prev, generated_protocols, rag_index, response>>

\* generator._generate_visit_schedule(spec, similar_protocols); vin.o holds the
\* LLM's answer to the visit schedule prompt
GenerateVisitSchedule ==
    /\ vin.kind = "visit_schedule" /\ ~vout.done
    /\ vout' = Returned(_generate_visit_schedule(vin.spec, GenLLM(cfg), vin.o))
    /\ UNCHANGED <<vin, cfg, last, prev, generated_protocols, rag_index, response>>

\* crf_generator.generate_crf_schema(spec, protocol) on a protocol at hand; the
\* outcome holds the schema (or the exception) and the LLM calls that were made
GenerateCrfSchema ==
    /\ vin.kind = "crf_schema" /\ ~vout.done
    /\ \E outs \in FormOracles(CrfLLM(cfg), NumDerived(vin.protocol.assessments)) :
        vout' = Returned([crf |-> generate_crf_schema(vin.spec, vin.protocol, CrfLLM(cfg), outs),
                          calls |-> FormCalls(vin.protocol.assessments, CrfLLM(cfg), outs)])
    /\ UNCHANGED <<vin, cfg, last, prev, generated_protocols, rag_index, response>>

\* one library-level run; remember says whether the run before it is kept for
\* comparison.  A behaviour holds one run, or two when the first is remembered.
GenerateRun(remember) ==
    /\ IF remember THEN ~prev.done ELSE ~last.done
    /\ \E spec \in GenSpecs : \E o \in GenOracles(spec, cfg) :
        \E outs \in FormOracles(CrfLLM(cfg), DerivedCount(spec, cfg, o)) :
            /\ last' = RunOutcome(spec, cfg, o, outs)
            /\ prev' = IF remember THEN last ELSE prev
            /\ UNCHANGED <<vin, vout, cfg, generated_protocols, rag_index, response>>

Generate == GenerateRun(FALSE)
GenerateAgain == GenerateRun(TRUE)

----------------------------------------------------------------------------
(* main.py: the HTTP handlers over the in-memory result store *)

\* most results the store is let to hold while the LLM answers
MaxStored == 1
\* most results the store is let to hold while no LLM is configured
MaxStoredTemplate == 2
\* most documents the similarity index is let to hold
MaxDocs == 1

\* uuid.uuid4().hex[:12]: an identifier no stored result carries
RequestIds == {"REQ-0000000000A1", "REQ-0000000000B2"}

PutMutReplaceAll(store, key, value) == [k \in {key} |-> value]
\* generated_protocols[request_id] = result; collection.add(ids=[doc_id], ...)
Put(store, key, value) ==
    [k \in DOMAIN store \cup {key} |-> IF k = key THEN value ELSE store[k]]
RemoveMutAll(store, key) == <<>>
\* del generated_protocols[request_id]; collection.delete(ids=[doc_id])
Remove(store, key) == [k \in DOMAIN store \ {key} |-> store[k]]

\* RAGService: f"protocol_{uuid.uuid4().hex[:12]}", an identifier no document carries
DocId(hex) == <<"protocol_", hex>>
DocIds == {DocId(hex) : hex \in {"0000000000c3", "0000000000d4", "0000000000e5"}}

\* trial_spec.model_dump_json(), json.dumps(protocol.model_dump(), default=json_serial):
\* the text chroma keeps in a metadata value; it is not the payload itself
JsonDumps(payload) == [json |-> payload]
\* json.loads(text)
JsonLoads(text) == text.json
\* metadata.pop(key, '{}') of a metadata that lacks the key
EmptyJson == JsonDumps(<<>>)

\* dict.update, {**d, key: value}: the entries of d, overridden by those of m
Update(d, m) == [k \in DOMAIN d \cup DOMAIN m |-> IF k \in DOMAIN m THEN m[k] ELSE d[k]]
\* a copy of d without the keys popped from it
Without(d, keys) == [k \in DOMAIN d \ keys |-> d[k]]

\* RAGService._create_search_text: the fields of the specification that are embedded
_create_search_text(trial_spec) ==
    [phase |-> trial_spec.phase, indication |-> trial_spec.indication,
     design |-> trial_spec.design, sample_size |-> trial_spec.sample_size,
     duration_weeks |-> trial_spec.duration_weeks,
     endpoints |-> [i \in 1..Len(trial_spec.key_endpoints) |->
                       <<trial_spec.key_endpoints[i].type, trial_spec.key_endpoints[i].name>>],
     inclusion |-> SubSeq(trial_spec.inclusion_criteria, 1,
                          IF Len(trial_spec.inclusion_criteria) < 3
                          THEN Len(trial_spec.inclusion_criteria) ELSE 3)]

\* the keys under which add_protocol_example keeps the serialized payloads
JsonKeys == {"trial_spec_json", "protocol_json"}

\* doc_metadata of add_protocol_example: the fields copied from the specification,
\* updated with the caller's metadata, then the two serialized payloads
DocMetadata(trial_spec, protocol, metadata) ==
    Update(Update([phase |-> trial_spec.phase, indication |-> trial_spec.indication,
                   design |-> trial_spec.design, sample_size |-> trial_spec.sample_size,
                   duration_weeks |-> trial_spec.duration_weeks,
                   protocol_id |-> protocol.protocol_id],
                  metadata),
           [trial_spec_json |-> JsonDumps(trial_spec), protocol_json |-> JsonDumps(protocol)])

\* the record collection.add stores under the new id: documents=[search_text],
\* metadatas=[doc_metadata]
Doc(trial_spec, protocol, metadata) ==
    [document |-> _create_search_text(trial_spec),
     metadata |-> DocMetadata(trial_spec, protocol, metadata)]

\* uuid.uuid4(): the identifier drawn for a new document, one the collection lacks
FreshDocId(index) == CHOOSE doc_id \in DocIds \ DOMAIN index : TRUE

add_protocol_example_MutReplace(index, doc_id, trial_spec, protocol, metadata) ==
    Put(EmptyIndex, doc_id, Doc(trial_spec, protocol, metadata))
\* RAGService.add_protocol_example
add_protocol_example(index, doc_id, trial_spec, protocol, metadata) ==
    Put(index, doc_id, Doc(trial_spec, protocol, metadata))

\* RAGService.get_count
get_count(index) == Cardinality(DOMAIN index)

\* collection.delete(ids=[doc_id]): an id the collection does not hold is skipped
\* without an error; the call itself may fail for any id
CollectionDeleteOutcomes == {"ok", "raise"}

delete_protocol_MutKeep(index, doc_id, outcome) ==
    IF outcome = "raise" THEN [success |-> FALSE, index |-> index]
    ELSE [success |-> TRUE, index |-> index]
\* RAGService.delete_protocol: True unless collection.delete raised
delete_protocol(index, doc_id, outcome) ==
    IF outcome = "raise" THEN [success |-> FALSE, index |-> index]
    ELSE [success |-> TRUE, index |-> Remove(index, doc_id)]

\* collection.query(query_texts=[...], n_results=n): chroma refuses n < 1; otherwise
\* it answers at most n documents of the collection, nearest first, or fails
Distances == {0, 1}

Hit(doc_id, distance) == [id |-> doc_id, distance |-> distance]

QueryAnswers(index, n) ==
    {hits \in SeqsUpTo({Hit(id, d) : id \in DOMAIN index, d \in Distances}, IF n < 0 THEN 0 ELSE n) :
        /\ \A i, j \in 1..Len(hits) : i < j => /\ hits[i].id # hits[j].id
                                               /\ hits[i].distance <= hits[j].distance}

QueryOutcomes(index, n) ==
    {[raised |-> TRUE]}
    \cup (IF n < 1 THEN {} ELSE {[raised |-> FALSE, hits |-> hits] : hits \in QueryAnswers(index, n)})

Min(a, b) == IF a < b THEN a ELSE b

\* the entry retrieve_similar_protocols builds of one query hit
SimilarProtocol(index, hit) ==
    LET metadata == index[hit.id].metadata
    IN  [id |-> hit.id, similarity_score |-> 1 - hit.distance, distance |-> hit.distance,
         metadata |-> Without(metadata, JsonKeys),
         trial_spec |-> JsonLoads(IF "trial_spec_json" \in DOMAIN metadata
                                  THEN metadata.trial_spec_json ELSE EmptyJson),
         protocol |-> JsonLoads(IF "protocol_json" \in DOMAIN metadata
                                THEN metadata.protocol_json ELSE EmptyJson)]

\* what a call of the service leaves behind: its value or the exception, and the
\* n_results of every collection.query it made
Retrieved(raised, value, queries) == [raised |-> raised, value |-> value, queries |-> queries]

retrieve_similar_protocols_MutNoEmptyCheck(index, trial_spec, n_results, outcome) ==
    IF outcome.raised THEN Retrieved(TRUE, <<>>, <<Min(n_results, get_count(index))>>)
    ELSE Retrieved(FALSE, [i \in 1..Len(outcome.hits) |-> SimilarProtocol(index, outcome.hits[i])],
                   <<Min(n_results, get_count(index))>>)
\* RAGService.retrieve_similar_protocols; outcome is the answer of collection.query
\* when it is called
retrieve_similar_protocols(index, trial_spec, n_results, outcome) ==
    IF get_count(index) = 0 THEN Retrieved(FALSE, <<>>, <<>>)
    ELSE IF outcome.raised THEN Retrieved(TRUE, <<>>, <<Min(n_results, get_count(index))>>)
    ELSE Retrieved(FALSE, [i \in 1..Len(outcome.hits) |-> SimilarProtocol(index, outcome.hits[i])],
                   <<Min(n_results, get_count(index))>>)

\* collection.get(...) answers or fails
CollectionGetOutcomes == {"ok", "raise"}

\* None
NoProtocol == [found |-> FALSE]

get_protocol_by_id_MutNoPop(index, doc_id, outcome) ==
    IF outcome = "raise" \/ doc_id \notin DOMAIN index THEN NoProtocol
    ELSE LET metadata == index[doc_id].metadata
         IN  [found |-> TRUE, id |-> doc_id, metadata |-> metadata,
              trial_spec |-> JsonLoads(metadata.trial_spec_json),
              protocol |-> JsonLoads(metadata.protocol_json)]
\* RAGService.get_protocol_by_id: None for an id the collection lacks and when
\* collection.get raised
get_protocol_by_id(index, doc_id, outcome) ==
    IF outcome = "raise" \/ doc_id \notin DOMAIN index THEN NoProtocol
    ELSE LET metadata == index[doc_id].metadata
         IN  [found |-> TRUE, id |-> doc_id,
              metadata |-> Without(metadata, JsonKeys),
              trial_spec |-> JsonLoads(IF "trial_spec_json" \in DOMAIN metadata
                                       THEN metadata.trial_spec_json ELSE EmptyJson),
              protocol |-> JsonLoads(IF "protocol_json" \in DOMAIN metadata
                                     THEN metadata.protocol_json ELSE EmptyJson)]

\* RAGService.list_all_protocols: [] when collection.get raised
list_all_protocols(index, outcome) ==
    IF outcome = "raise" THEN {}
    ELSE {[id |-> doc_id, metadata |-> Without(index[doc_id].metadata, JsonKeys)] :
             doc_id \in DOMAIN index}

\* generate_protocol_narrative: retrieval is tried once more; the text only tells
\* whether examples were found
generate_protocol_narrative(spec, c, rag2) ==
    IF GenRAG(c) /\ rag2 = "one" THEN "template narrative with RAG context"
    ELSE "template narrative"

ValidationStatus_MutWarningsFirst(all_errors, all_warnings) ==
    IF all_warnings # <<>> THEN "warnings"
    ELSE IF all_errors # <<>> THEN "failed" ELSE "passed"
\* if all_errors: "failed" elif all_warnings: "warnings" else: "passed"
ValidationStatus(all_errors, all_warnings) ==
    IF all_errors # <<>> THEN "failed"
    ELSE IF all_warnings # <<>> THEN "warnings" ELSE "passed"

\* the GenerationResult built at the end of generate_protocol
GenerationResult(request_id, spec, validation_result, protocol, text, crf) ==
    LET protocol_validation == validate_protocol(protocol)
        crf_validation == validate_crf_schema(crf)
        all_warnings == validation_result.warnings \o protocol_validation.warnings
                        \o crf_validation.warnings
        all_errors == protocol_validation.errors \o crf_validation.errors
    IN  [request_id |-> request_id, input_spec |-> spec,
         protocol_structured |-> protocol, protocol_text |-> text, crf_schema |-> crf,
         validation_status |-> ValidationStatus(all_errors, all_warnings),
         validation_messages |-> all_warnings \o all_errors,
         generation_method |-> protocol.generation_method,
         rag_protocols_used |-> protocol.rag_protocols_used,
         llm_sections |-> protocol.llm_enhanced_sections]

Response(op, status, request_id, spec) ==
    [op |-> op, status |-> status, request_id |-> request_id, spec |-> spec]

NotFoundMutOk(op, request_id) == Response(op, 200, request_id, <<>>)
\* raise HTTPException(status_code=status.HTTP_404_NOT_FOUND, ...)
NotFound(op, request_id) == Response(op, 404, request_id, <<>>)

\* the requests posted: a specification of each endpoint list
ApiSpecs == {spec \in GenSpecs : spec.duration_weeks = 8 /\ spec.inclusion_criteria # <<>>}

\* the outcomes of one request: any answer for the objectives with the other text
\* sections all succeeding or all failing, and with the text sections succeeding
\* a visit schedule of anything up to one item or a usual two-visit array and
\* assessments that fail or name one assessment
AllText(spec, kind, crit) ==
    [inc |-> crit, exc |-> crit, design |-> kind,
     ep |-> [i \in 1..Len(spec.key_endpoints) |-> kind]]

\* retrieve_similar_protocols: an empty collection answers [] before any query, a
\* collection with documents answers at least one of them; either may raise
RetrievalOutcomes(c, index) ==
    IF ~GenRAG(c) THEN {Unused}
    ELSE IF DOMAIN index = {} THEN {"raise", "none"} ELSE {"raise", "one"}

ApiLLMOracles(spec) ==
    LET Answer(obj, t, v, a) ==
            [obj |-> obj, inc |-> t.inc, exc |-> t.exc, design |-> t.design, ep |-> t.ep,
             visits |-> v, assessments |-> a]
        good == [kind |-> "json",
                 value |-> Objectives({"primary", "secondary"}, LLMPrimary, LLMSecondary)]
    IN  {Answer(obj, t, ArrayOutcome("raise", <<>>), ArrayOutcome("raise", <<>>)) :
            obj \in ObjectiveOutcomes,
            t \in {AllText(spec, "text", "list"), AllText(spec, "raise", "raise")}}
        \cup
        {Answer(good, AllText(spec, "text", "list"), v, a) :
            v \in {ArrayOutcome(k, <<>>) : k \in {"raise", "text"}}
                  \cup {ArrayOutcome("json", x) : x \in SeqsUpTo(LLMVisitItems, 1)}
                  \cup {ArrayOutcome("json", <<Visit("V0", "Screening", -1),
                                               Visit("V1", "Baseline", 0)>>)},
            a \in {ArrayOutcome("raise", <<>>),
                   ArrayOutcome("json", <<Assessment("TUMOR", "Tumor Assessment")>>)}}

\* uuid.uuid4().hex[:8] of a request: the identifier is varied while the LLM answers
ApiProtocolIds(c) == IF GenLLM(c) THEN ProtocolIds ELSE {"PROT-0A1B2C3D"}

ApiOracles(spec, c) ==
    {Oracle(l, r, id) :
        l \in IF GenLLM(c) THEN ApiLLMOracles(spec) ELSE {NoLLMCall(spec)},
        r \in RetrievalOutcomes(c, rag_index),
        id \in ApiProtocolIds(c)}

\* the answer of generate_protocol: the 400 detail itemizes the validation messages;
\* generation_started tells whether the handler went on to the generators
GenerateResponse(status, request_id, spec, validation_result, started) ==
    [op |-> "generate", status |-> status, request_id |-> request_id, spec |-> spec,
     errors |-> IF status = 400 THEN validation_result.errors ELSE <<>>,
     warnings |-> IF status = 400 THEN validation_result.warnings ELSE <<>>,
     generation_started |-> started]

RejectedMutNever(validation_result) == FALSE
\* if not validation_result.valid: raise HTTPException(400)
Rejected(validation_result) == ~validation_result.valid

StoreLimit == IF GenLLM(cfg) THEN MaxStored ELSE MaxStoredTemplate

\* POST /api/v1/generate
PostGenerate ==
    /\ Cardinality(DOMAIN generated_protocols) < StoreLimit
    /\ \E spec \in ApiSpecs, request_id \in RequestIds \ DOMAIN generated_protocols :
       LET validation_result == validate_trial_spec(spec)
       IN  IF Rejected(validation_result)
           THEN /\ response' = GenerateResponse(400, request_id, spec, validation_result, FALSE)
                /\ UNCHANGED generated_protocols
           ELSE \E o \in ApiOracles(spec, cfg), rag2 \in RetrievalOutcomes(cfg, rag_index) :
                \E outs \in FormOracles(CrfLLM(cfg), DerivedCount(spec, cfg, o)) :
                LET protocol == generate_structured_protocol(spec, cfg, o)
                    text == generate_protocol_narrative(spec, cfg, rag2)
                    crf == IF protocol.raised THEN protocol
                           ELSE generate_crf_schema(spec, protocol.value, CrfLLM(cfg), outs)
                IN  IF crf.raised
                    THEN /\ response' = GenerateResponse(500, request_id, spec, validation_result, TRUE)
                         /\ UNCHANGED generated_protocols
                    ELSE /\ generated_protocols' =
                                Put(generated_protocols, request_id,
                                    GenerationResult(request_id, spec, validation_result,
                                                     protocol.value, text, crf.value))
                         /\ response' = GenerateResponse(201, request_id, spec, validation_result, TRUE)
    /\ UNCHANGED <<vin, vout, cfg, last, prev, rag_index>>

\* DELETE /api/v1/protocols/{request_id}
DeleteProtocol ==
    /\ \E request_id \in RequestIds :
        IF request_id \notin DOMAIN generated_protocols
        THEN /\ response' = NotFound("delete", request_id)
             /\ UNCHANGED generated_protocols
        ELSE /\ generated_protocols' = Remove(generated_protocols, request_id)
             /\ response' = Response("delete", 200, request_id, <<>>)
    /\ UNCHANGED <<vin, vout, cfg, last, prev, rag_index>>

\* SAMPLE_PROTOCOLS: the specifications seeding draws on
SAMPLE_PROTOCOLS == <<CHOOSE spec \in ApiSpecs : validate_trial_spec(spec).valid>>

\* what the template generator makes of a specification with no service answering
TemplateProtocol(spec) ==
    generate_structured_protocol(spec, Idle, Oracle(NoLLMCall(spec), Unused, "PROT-0A1B2C3D")).value

\* chroma_db on disk: a collection that kept one seeded document of an earlier run
DiskIndex ==
    add_protocol_example(EmptyIndex, DocId("0000000000c3"), SAMPLE_PROTOCOLS[1],
                         TemplateProtocol(SAMPLE_PROTOCOLS[1]), [source |-> "sample_seed"])

\* the body of a 200 answer of an export endpoint
ExportResponse(op, request_id, export_data) ==
    [op |-> op, status |-> 200, request_id |-> request_id, format |-> export_data.format,
     filename |-> export_data.filename, content |-> export_data.content]

\* include_protocol and include_crf of an export request: the defaults, or the
\* protocol alone
RequestFlags == {<<TRUE, TRUE>>, <<TRUE, FALSE>>}

\* POST /api/v1/export
ExportProtocol ==
    /\ \E request_id \in RequestIds, format \in ExportFormats, flags \in RequestFlags :
        IF request_id \notin DOMAIN generated_protocols
        THEN response' = NotFound("export", request_id)
        ELSE LET result == generated_protocols[request_id]
             IN  response' = ExportResponse("export", request_id,
                                 export(result.protocol_structured, result.crf_schema,
                                        format, flags[1], flags[2]))
    /\ UNCHANGED <<vin, vout, cfg, last, prev, generated_protocols, rag_index>>

\* export_odm, export_fhir, export_csv: request_data.get("request_id") of a JSON body;
\* "" stands for a body without the key
ExportAs(op, format) ==
    /\ \E request_id \in RequestIds \cup {""} :
        IF request_id = ""
        THEN response' = Response(op, 400, request_id, <<>>)
        ELSE IF request_id \notin DOMAIN generated_protocols
        THEN response' = NotFound(op, request_id)
        ELSE LET result == generated_protocols[request_id]
             IN  response' = ExportResponse(op, request_id,
                                 export(result.protocol_structured, result.crf_schema,
                                        format, TRUE, TRUE))
    /\ UNCHANGED <<vin, vout, cfg, last, prev, generated_protocols, rag_index>>

\* POST /api/v1/export/odm
ExportOdm == ExportAs("export_odm", "odm_xml")
\* POST /api/v1/export/fhir
ExportFhir == ExportAs("export_fhir", "fhir_json")
\* POST /api/v1/export/csv
ExportCsv == ExportAs("export_csv", "csv")

\* GET /api/v1/protocols/{request_id}
GetProtocol ==
    /\ \E request_id \in RequestIds :
        IF request_id \notin DOMAIN generated_protocols
        THEN response' = NotFound("get", request_id)
        ELSE response' = [op |-> "get", status |-> 200, request_id |-> request_id,
                          result |-> generated_protocols[request_id]]
    /\ UNCHANGED <<vin, vout, cfg, last, prev, generated_protocols, rag_index>>

\* GET /api/v1/protocols
ListProtocols ==
    /\ response' = [op |-> "list", status |-> 200,
                    count |-> Cardinality(DOMAIN generated_protocols),
                    protocols |-> DOMAIN generated_protocols]
    /\ UNCHANGED <<vin, vout, cfg, last, prev, generated_protocols, rag_index>>

\* collection.add(...) stores the document or raises
CollectionAddOutcomes == {"ok", "raise"}

\* POST /api/v1/rag/add-example
AddProtocolExample ==
    /\ \E request_id \in RequestIds :
        IF request_id \notin DOMAIN generated_protocols
        THEN /\ response' = NotFound("add_example", request_id)
             /\ UNCHANGED rag_index
        ELSE /\ get_count(rag_index) < MaxDocs
             /\ \E outcome \in CollectionAddOutcomes :
                LET result == generated_protocols[request_id]
                    doc_id == FreshDocId(rag_index)
                IN  IF outcome = "raise"
                    THEN /\ response' = Response("add_example", 500, request_id, <<>>)
                         /\ UNCHANGED rag_index
                    ELSE /\ rag_index' =
                                add_protocol_example(rag_index, doc_id, result.input_spec,
                                    result.protocol_structured,
                                    [request_id |-> request_id,
                                     validation_status |-> result.validation_status])
                         /\ response' = [op |-> "add_example", status |-> 200,
                                         request_id |-> request_id, rag_doc_id |-> doc_id,
                                         total_examples |-> get_count(rag_index')]
    /\ UNCHANGED <<vin, vout, cfg, last, prev, generated_protocols>>

\* DELETE /api/v1/rag/examples/{doc_id}
DeleteRagExample ==
    /\ \E doc_id \in DocIds, outcome \in CollectionDeleteOutcomes :
        LET deleted == delete_protocol(rag_index, doc_id, outcome)
        IN  /\ rag_index' = deleted.index
            /\ IF ~deleted.success
               THEN response' = [op |-> "rag_delete", status |-> 404, doc_id |-> doc_id]
               ELSE response' = [op |-> "rag_delete", status |-> 200, doc_id |-> doc_id,
                                 remaining_count |-> get_count(rag_index')]
    /\ UNCHANGED <<vin, vout, cfg, last, prev, generated_protocols>>

RECURSIVE SeedSamples(_, _, _)
\* the loop of seed_rag_database: a sample whose generation or whose insertion
\* raises is counted as failed and the loop goes on
SeedSamples(samples, index, outs) ==
    IF samples = <<>> THEN [index |-> index, added |-> 0, failed |-> 0]
    ELSE LET sample_spec == Head(samples)
             protocol == generate_structured_protocol(sample_spec, cfg, Head(outs).o)
             ok == ~protocol.raised /\ Head(outs).add = "ok"
             rest == SeedSamples(Tail(samples),
                                 IF ok THEN add_protocol_example(index, FreshDocId(index),
                                                sample_spec, protocol.value,
                                                [source |-> "sample_seed"])
                                 ELSE index,
                                 Tail(outs))
         IN  [index |-> rest.index,
              added |-> rest.added + (IF ok THEN 1 ELSE 0),
              failed |-> rest.failed + (IF ok THEN 0 ELSE 1)]

\* POST /api/v1/rag/seed
SeedRagDatabase ==
    /\ get_count(rag_index) + Len(SAMPLE_PROTOCOLS) <= MaxDocs
    /\ \E outs \in [1..Len(SAMPLE_PROTOCOLS) ->
                      [o : UNION {ApiOracles(sp, cfg) : sp \in Range(SAMPLE_PROTOCOLS)},
                       add : CollectionAddOutcomes]] :
        /\ \A i \in 1..Len(SAMPLE_PROTOCOLS) : outs[i].o \in ApiOracles(SAMPLE_PROTOCOLS[i], cfg)
        /\ LET seeded == SeedSamples(SAMPLE_PROTOCOLS, rag_index, outs)
           IN  /\ rag_index' = seeded.index
               /\ response' = [op |-> "seed", status |-> 200, added |-> seeded.added,
                               failed |-> seeded.failed,
                               total_examples |-> get_count(rag_index')]
    /\ UNCHANGED <<vin, vout, cfg, last, prev, generated_protocols>>

----------------------------------------------------------------------------
(* RAGService called directly, as tests/test_rag_service.py does *)

\* most documents the similarity index is let to hold when the service is called directly
MaxIndexed == 2

\* the specifications of the tests: the phase, sample size and duration vary
RagSpecs ==
    {TrialSpec("Phase 2", 100, 12, OnePrimary, TwoInclusion, OneExclusion, NoAge, <<>>),
     TrialSpec("Phase 3", 500, 52, OnePrimary, TwoInclusion, OneExclusion, NoAge, <<>>)}

\* metadata=None, the metadata of seed_rag_database and that of POST /rag/add-example
RagMetadata ==
    {<<>>, [source |-> "sample_seed"],
     [request_id |-> "REQ-0000000000A1", validation_status |-> "passed"]}

\* n_results of a retrieval
RagNResults == {-1, 0, 1, 2, 3}

\* the call made last and what it returned; args names the arguments and the
\* outcome of the collection call behind it
Called(op, args, result) == [done |-> TRUE, op |-> op, args |-> args, result |-> result]

\* doc_id = rag_service.add_protocol_example(spec, protocol, metadata)
RagAdd ==
    /\ vin.kind = "rag" /\ get_count(rag_index) < MaxIndexed
    /\ \E trial_spec \in RagSpecs, metadata \in RagMetadata, outcome \in CollectionAddOutcomes :
        LET doc_id == FreshDocId(rag_index)
            args == [trial_spec |-> trial_spec, protocol |-> TemplateProtocol(trial_spec),
                     metadata |-> metadata]
        IN  IF outcome = "raise"
            THEN /\ vout' = Called("add", args, Raised("collection.add"))
                 /\ UNCHANGED rag_index
            ELSE /\ rag_index' = add_protocol_example(rag_index, doc_id, trial_spec,
                                                      args.protocol, metadata)
                 /\ vout' = Called("add", args, Ok(doc_id))
    /\ UNCHANGED <<vin, cfg, last, prev, generated_protocols, response>>

\* rag_service.retrieve_similar_protocols(spec, n_results)
RagRetrieve ==
    /\ vin.kind = "rag"
    /\ \E trial_spec \in RagSpecs, n_results \in RagNResults :
       \E outcome \in QueryOutcomes(rag_index, Min(n_results, get_count(rag_index))) :
        vout' = Called("retrieve", [trial_spec |-> trial_spec, n_results |-> n_results],
                       retrieve_similar_protocols(rag_index, trial_spec, n_results, outcome))
    /\ UNCHANGED <<vin, cfg, last, prev, generated_protocols, rag_index, response>>

\* rag_service.get_protocol_by_id(doc_id)
RagGet ==
    /\ vin.kind = "rag"
    /\ \E doc_id \in DocIds, outcome \in CollectionGetOutcomes :
        vout' = Called("get", [doc_id |-> doc_id, collection_get |-> outcome],
                       get_protocol_by_id(rag_index, doc_id, outcome))
    /\ UNCHANGED <<vin, cfg, last, prev, generated_protocols, rag_index, response>>

\* rag_service.list_all_protocols()
RagList ==
    /\ vin.kind = "rag"
    /\ \E outcome \in CollectionGetOutcomes :
        vout' = Called("list", [collection_get |-> outcome],
                       [protocols |-> list_all_protocols(rag_index, outcome)])
    /\ UNCHANGED <<vin, cfg, last, prev, generated_protocols, rag_index, response>>

\* rag_service.delete_protocol(doc_id)
RagDelete ==
    /\ vin.kind = "rag"
    /\ \E doc_id \in DocIds, outcome \in CollectionDeleteOutcomes :
        LET deleted == delete_protocol(rag_index, doc_id, outcome)
        IN  /\ rag_index' = deleted.index
            /\ vout' = Called("delete", [doc_id |-> doc_id, collection_delete |-> outcome],
                           [success |-> deleted.success])
    /\ UNCHANGED <<vin, cfg, last, prev, generated_protocols, response>>

----------------------------------------------------------------------------
(* Specifications *)

\* the validator applied to every input of the bounded input sets
InitValidate ==
    /\ vin \in {[kind |-> "spec", spec |-> sp] : sp \in ValSpecs}
         \cup {[kind |-> "protocol", protocol |-> p] : p \in ValProtocols}
         \cup {[kind |-> "crf", crf |-> c] : c \in ValCRFs}
    /\ vout = NotRun
    /\ cfg = Idle /\ last = NoRun /\ prev = NoRun
    /\ generated_protocols = EmptyStore /\ rag_index = EmptyIndex /\ response = NoResponse

NextValidate == ValidateTrialSpec \/ ValidateProtocol \/ ValidateCRFSchema

SpecValidate == InitValidate /\ [][NextValidate]_vars

\* library-level generation under every configuration
InitLib ==
    /\ cfg \in [use_rag : BOOLEAN, use_llm : BOOLEAN, api_key : BOOLEAN]
    /\ last = NoRun /\ prev = NoRun
    /\ vin = [kind |-> "none"] /\ vout = NotRun
    /\ generated_protocols = EmptyStore /\ rag_index = EmptyIndex /\ response = NoResponse

NextLib == Generate

SpecLib == InitLib /\ [][NextLib]_vars

\* repeated runs of a generator constructed with use_llm=False, use_rag=False
InitDisabled ==
    /\ cfg \in [use_rag : {FALSE}, use_llm : {FALSE}, api_key : BOOLEAN]
    /\ last = NoRun /\ prev = NoRun
    /\ vin = [kind |-> "none"] /\ vout = NotRun
    /\ generated_protocols = EmptyStore /\ rag_index = EmptyIndex /\ response = NoResponse

NextDisabled == GenerateAgain

SpecDisabled == InitDisabled /\ [][NextDisabled]_vars


\* the service as main.py constructs it: ProtocolTemplateGenerator(use_rag=True, use_llm=True)
InitApi ==
    /\ cfg \in [use_rag : {TRUE}, use_llm : {TRUE}, api_key : BOOLEAN]
    /\ generated_protocols = EmptyStore /\ response = NoResponse
    /\ rag_index \in {EmptyIndex, DiskIndex}
    /\ last = NoRun /\ prev = NoRun
    /\ vin = [kind |-> "none"] /\ vout = NotRun

NextApi == PostGenerate \/ DeleteProtocol

SpecApi == InitApi /\ [][NextApi]_vars

\* the generators as main.py constructs them, with an OpenAI key configured
ExportCfg == [use_rag |-> TRUE, use_llm |-> TRUE, api_key |-> TRUE]

\* the answers behind an exported result: retrieval finds nothing, the LLM answers
\* the text sections, the visit schedule is the template's or the LLM's, the
\* assessments are the template's or any array the LLM answers
ExportOracles(spec) ==
    {Oracle([obj |-> [kind |-> "json",
                      value |-> Objectives({"primary", "secondary"}, LLMPrimary, LLMSecondary)],
             inc |-> "list", exc |-> "list", design |-> "text",
             ep |-> [i \in 1..Len(spec.key_endpoints) |-> "text"],
             visits |-> v, assessments |-> a], "none", "PROT-0A1B2C3D") :
        v \in {ArrayOutcome("raise", <<>>),
               ArrayOutcome("json", <<Visit("V0", "Screening", -1), Visit("V1", "Baseline", 0)>>)},
        a \in {x \in AssessmentOutcomes : x.kind \in {"raise", "json"}}}

\* the protocols and CRF schemas the generators hand to the exporter
ExportInputsOf(spec) ==
    UNION {LET protocol == generate_structured_protocol(spec, ExportCfg, o).value
           IN  {[protocol |-> protocol,
                 crf_schema |-> generate_crf_schema(spec, protocol, TRUE, outs).value] :
                   outs \in FormOracles(TRUE, NumDerived(protocol.assessments))} :
           o \in ExportOracles(spec)}

ExportInputs == UNION {ExportInputsOf(spec) : spec \in {sp \in ApiSpecs : validate_trial_spec(sp).valid}}

\* the exporter applied to every generated result, format and pair of flags
InitExport ==
    /\ vin \in {[kind |-> "export", protocol |-> x.protocol, crf_schema |-> x.crf_schema,
                  format |-> f, include_protocol |-> ip, include_crf |-> ic] :
                    x \in ExportInputs, f \in ExportFormats, ip \in BOOLEAN, ic \in BOOLEAN}
    /\ vout = NotRun
    /\ cfg = Idle /\ last = NoRun /\ prev = NoRun
    /\ generated_protocols = EmptyStore /\ rag_index = EmptyIndex /\ response = NoResponse

NextExport == Export

SpecExport == InitExport /\ [][NextExport]_vars

\* the service with no OpenAI key configured: every handler over the result store
\* and the similarity index
InitStore ==
    /\ cfg = [use_rag |-> TRUE, use_llm |-> TRUE, api_key |-> FALSE]
    /\ generated_protocols = EmptyStore /\ response = NoResponse
    /\ rag_index = EmptyIndex
    /\ last = NoRun /\ prev = NoRun
    /\ vin = [kind |-> "none"] /\ vout = NotRun

NextStore ==
    \/ PostGenerate \/ DeleteProtocol \/ GetProtocol \/ ListProtocols
    \/ ExportProtocol \/ ExportOdm \/ ExportFhir \/ ExportCsv
    \/ AddProtocolExample \/ SeedRagDatabase \/ DeleteRagExample

SpecStore == InitStore /\ [][NextStore]_vars


\* longest assessment list the LLM answers for a protocol handed to the CRF generator
MaxAssessments == 2

\* the assessment lists of the protocols: the template's, or any list the LLM
\* answers of a baseline assessment, two further assessments and one without an id
CrfAssessmentOutcomes ==
    {ArrayOutcome("raise", <<>>)}
    \cup {ArrayOutcome("json", a) :
            a \in SeqsUpTo({Assessment("DEMO", "Demographics"),
                            Assessment("TUMOR", "Tumor Assessment"),
                            Assessment("ECOG", "ECOG Performance Status"), NoIdAssessment},
                           MaxAssessments)}

\* the answers behind a protocol handed to the CRF generator: as ExportOracles, with
\* the template's visit schedule or an LLM schedule of no visit, of the baseline
\* visit alone or of screening and baseline
CrfOracles(spec) ==
    {Oracle([obj |-> [kind |-> "json",
                      value |-> Objectives({"primary", "secondary"}, LLMPrimary, LLMSecondary)],
             inc |-> "list", exc |-> "list", design |-> "text",
             ep |-> [i \in 1..Len(spec.key_endpoints) |-> "text"],
             visits |-> v, assessments |-> a], "none", "PROT-0A1B2C3D") :
        v \in {ArrayOutcome("raise", <<>>), ArrayOutcome("json", <<>>),
               ArrayOutcome("json", <<Visit("V1", "Baseline", 0)>>),
               ArrayOutcome("json", <<Visit("V0", "Screening", -1), Visit("V1", "Baseline", 0)>>)},
        a \in CrfAssessmentOutcomes}

\* a specification and a protocol generated for it
CrfInputsOf(spec) ==
    {[kind |-> "crf_schema", spec |-> spec,
      protocol |-> generate_structured_protocol(spec, ExportCfg, o).value] : o \in CrfOracles(spec)}

\* the CRF generator, with and without an OpenAI key, applied to every such protocol
InitCrf ==
    /\ vin \in UNION {CrfInputsOf(spec) : spec \in {sp \in ApiSpecs : validate_trial_spec(sp).valid}}
    /\ vout = NotRun
    /\ cfg \in [use_rag : {TRUE}, use_llm : {TRUE}, api_key : BOOLEAN]
    /\ last = NoRun /\ prev = NoRun
    /\ generated_protocols = EmptyStore /\ rag_index = EmptyIndex /\ response = NoResponse

NextCrf == GenerateCrfSchema

SpecCrf == InitCrf /\ [][NextCrf]_vars

\* longest study, in weeks, whose visit schedule is generated
MaxDuration == 52

\* a specification of every duration from one week on
DurationSpecs ==
    {TrialSpec("Phase 2", 100, d, OnePrimary, TwoInclusion, OneExclusion, NoAge, <<>>) :
        d \in 1..MaxDuration}

\* the visit schedule generator with no LLM, and with an LLM giving any answer
InitVisits ==
    /\ cfg \in [use_rag : {FALSE}, use_llm : BOOLEAN, api_key : {TRUE}]
    /\ vin \in {[kind |-> "visit_schedule", spec |-> spec, o |-> [visits |-> v]] :
                    spec \in DurationSpecs,
                    v \in IF GenLLM(cfg) THEN VisitOutcomes ELSE {ArrayOutcome(Unused, <<>>)}}
    /\ vout = NotRun
    /\ last = NoRun /\ prev = NoRun
    /\ generated_protocols = EmptyStore /\ rag_index = EmptyIndex /\ response = NoResponse

NextVisits == GenerateVisitSchedule

SpecVisits == InitVisits /\ [][NextVisits]_vars

\* a RAGService over an empty collection, its methods called in any order.
\* RAGService.clear_all has no caller in main.py, the generators, the tests or the
\* examples, so no behaviour of the program holds a call of it.
InitRag ==
    /\ vin = [kind |-> "rag"] /\ vout = NotRun
    /\ rag_index = EmptyIndex
    /\ cfg = Idle /\ last = NoRun /\ prev = NoRun
    /\ generated_protocols = EmptyStore /\ response = NoResponse

NextRag == RagAdd \/ RagRetrieve \/ RagGet \/ RagList \/ RagDelete

SpecRag == InitRag /\ [][NextRag]_vars

----------------------------------------------------------------------------
(* Properties of the validator (SpecValidate) *)

\* C7: a sample size below the phase minimum (20, 40, 100, 100 for Phase 1..4)
\* adds exactly one sample-size warning and never an error; at or above the
\* minimum it adds no message; the verdict is the one the same specification
\* gets with a sample size no rule objects to.
C7_SampleSizeWarningOnly ==
    (vin.kind = "spec" /\ vout.done) =>
        LET spec == vin.spec
            r == vout.result
            minimum == CASE spec.phase = "Phase 1" -> 20 [] spec.phase = "Phase 2" -> 40
                         [] spec.phase = "Phase 3" -> 100 [] spec.phase = "Phase 4" -> 100
            below == spec.sample_size < minimum
        IN  /\ CountOf(r.warnings, MsgSampleSize) = (IF below THEN 1 ELSE 0)
            /\ CountOf(r.errors, MsgSampleSize) = 0
            /\ CountOf(r.info, MsgSampleSize) = 0
            /\ r.valid = validate_trial_spec([spec EXCEPT !.sample_size = 100]).valid

\* a Phase 3 specification of 99 subjects was validated: one warning, still valid
C7_Witness ==
    /\ vin.kind = "spec" /\ vout.done
    /\ vin.spec.phase = "Phase 3" /\ vin.spec.sample_size = 99
    /\ CountOf(vout.result.warnings, MsgSampleSize) = 1
    /\ vout.result.valid

\* C8: with no primary endpoint validation reports an error and valid is false,
\* whatever secondary or exploratory endpoints are listed; with one to three
\* primary endpoints the rule adds no message; with more than three it adds one
\* warning and no error.
C8_PrimaryEndpointRule ==
    (vin.kind = "spec" /\ vout.done) =>
        LET eps == vin.spec.key_endpoints
            r == vout.result
            n == Cardinality({i \in 1..Len(eps) : eps[i].type = "primary"})
            Said(msg) == CountOf(r.errors, msg) + CountOf(r.warnings, msg) + CountOf(r.info, msg)
        IN  /\ n = 0 => /\ CountOf(r.errors, MsgNoPrimary) = 1
                        /\ ~r.valid
                        /\ Said(MsgManyPrimary) = 0
            /\ (1 <= n /\ n <= 3) => Said(MsgNoPrimary) = 0 /\ Said(MsgManyPrimary) = 0
            /\ n > 3 => /\ CountOf(r.warnings, MsgManyPrimary) = 1
                        /\ CountOf(r.errors, MsgManyPrimary) = 0
                        /\ Said(MsgNoPrimary) = 0

\* a specification listing only secondary and exploratory endpoints was rejected
C8_Witness ==
    /\ vin.kind = "spec" /\ vout.done
    /\ Len(vin.spec.key_endpoints) = 2
    /\ vin.spec.key_endpoints[1].type = "secondary"
    /\ vin.spec.key_endpoints[2].type = "exploratory"
    /\ MsgNoPrimary \in Range(vout.result.errors)
    /\ ~vout.result.valid

\* C9: for validate_trial_spec, validate_protocol and validate_crf_schema alike,
\* valid is true exactly when the list of errors is empty; warnings and info
\* have no part in it.
C9_ValidIffNoErrors ==
    vout.done => (vout.result.valid <=> vout.result.errors = <<>>)

\* a CRF schema was validated with warnings and no error, and is valid
C9_Witness ==
    /\ vin.kind = "crf" /\ vout.done
    /\ vout.result.warnings # <<>>
    /\ vout.result.errors = <<>>
    /\ vout.result.valid

\* C10: a supplied age_range (one that is neither None nor empty) is accepted
\* exactly when it is <min>-<max> with both parts integers and
\* 0 <= min < max <= 120; every other supplied value is an error and valid is
\* false; a value not supplied is not examined.
C10_AgeRangeAccepted ==
    (vin.kind = "spec" /\ vout.done) =>
        LET t == vin.spec.age_range.text
            r == vout.result
            WellFormed ==
                \E k \in 1..Len(t) :
                    LET lo == SubSeq(t, 1, k - 1)
                        hi == SubSeq(t, k + 1, Len(t))
                    IN  /\ t[k] = "-" /\ "-" \notin Range(lo) /\ "-" \notin Range(hi)
                        /\ IntParses(lo) /\ IntParses(hi)
                        /\ 0 <= IntValue(lo) /\ IntValue(lo) < IntValue(hi)
                        /\ IntValue(hi) <= 120
        IN  IF Truthy(vin.spec.age_range)
            THEN /\ WellFormed <=> MsgAgeRange \notin Range(r.errors)
                 /\ ~WellFormed => ~r.valid /\ CountOf(r.errors, MsgAgeRange) = 1
            ELSE MsgAgeRange \notin Range(r.errors)

\* the age range 0-120 was validated and accepted
C10_Witness ==
    /\ vin.kind = "spec" /\ vout.done
    /\ vin.spec.age_range = AgeStr(<<"0", "-", "1", "2", "0">>)
    /\ MsgAgeRange \notin Range(vout.result.errors)
    /\ vout.result.valid

----------------------------------------------------------------------------
(* Properties of generation (SpecLib, SpecDisabled, SpecApi) *)

\* C1: for every specification that passes validate_trial_spec and every outcome
\* of retrieval and the LLM, a protocol that generate_structured_protocol returns
\* has a primary objective and at least two visits, one of them with week = 0.
C1_PrimaryObjectiveAndBaseline ==
    (last.done /\ validate_trial_spec(last.spec).valid /\ ~last.protocol.raised) =>
        LET p == last.protocol.value
        IN  /\ p.objectives.isdict /\ "primary" \in p.objectives.keys
            /\ Len(p.visit_schedule) >= 2
            /\ \E i \in 1..Len(p.visit_schedule) : WeekIsZero(p.visit_schedule[i])

\* C2: POST /api/v1/generate for a specification that passes validation answers
\* 201 and stores the result under the request id of the answer, whatever
\* retrieval and the LLM do.
C2_GenerateAlwaysSucceeds ==
    (response.status # 0 /\ response.op = "generate"
        /\ validate_trial_spec(response.spec).valid) =>
        /\ response.status = 201
        /\ response.request_id \in DOMAIN generated_protocols
        /\ generated_protocols[response.request_id].request_id = response.request_id
        /\ generated_protocols[response.request_id].input_spec = response.spec

\* C3: with use_llm=False and use_rag=False two runs of
\* generate_structured_protocol and generate_crf_schema on the same input give
\* the same protocol and the same CRF schema, field by field.
C3_DisabledRunsIdentical ==
    (prev.done /\ last.done /\ ~cfg.use_llm /\ ~cfg.use_rag /\ prev.spec = last.spec) =>
        /\ prev.protocol = last.protocol
        /\ prev.crf = last.crf

\* C4: with use_llm=False and use_rag=False a run attempts no LLM call and no
\* retrieval call at any step, the forms CRFGenerator derives per assessment
\* included.
C4_DisabledRunsCallNothing ==
    (last.done /\ ~cfg.use_llm /\ ~cfg.use_rag) => last.calls = <<>>

\* C5: in every section generator, when the LLM attempt fails the section is what
\* it is with the LLM disabled.
C5_FailedAttemptEqualsDisabled ==
    (last.done /\ GenLLM(cfg) /\ ~last.protocol.raised) =>
        LET p == last.protocol.value
            spec == last.spec
            off == NoLLMCall(spec)
            Failed(section) == Call(section, FALSE) \in Range(last.calls)
            NoneOk(section) == Call(section, TRUE) \notin Range(last.calls)
        IN  /\ Failed("objectives") => p.objectives = _generate_objectives(spec, FALSE, off)
            /\ Failed("inclusion_criteria") =>
                   p.inclusion_criteria = _generate_inclusion_criteria(spec, FALSE, off)
            /\ Failed("exclusion_criteria") =>
                   p.exclusion_criteria = _generate_exclusion_criteria(spec, FALSE, off)
            /\ Failed("study_design") => p.study_design = _generate_study_design(spec, FALSE, off)
            /\ (Failed("endpoints") /\ NoneOk("endpoints")) =>
                   p.endpoints = _generate_endpoints(spec, FALSE, off)
            /\ Failed("visit_schedule") =>
                   p.visit_schedule = _generate_visit_schedule(spec, FALSE, off)
            /\ Failed("assessments") => p.assessments = _generate_assessments(spec, FALSE, off)

\* C6: generate_structured_protocol raises for no specification and no outcome of
\* the LLM.
C6_GenerationNeverRaises ==
    last.done => ~last.protocol.raised

----------------------------------------------------------------------------
(* Properties of POST /api/v1/generate (SpecApi) *)

\* C11: a generate request whose specification fails validate_trial_spec is answered
\* 400 with the validator's errors and warnings itemized, the handler takes no
\* generation step, and the store is left as it was
C11_InvalidSpecRejected ==
    [][(response'.status # 0 /\ response'.op = "generate"
        /\ ~validate_trial_spec(response'.spec).valid)
       => /\ response'.status = 400
          /\ response'.errors = validate_trial_spec(response'.spec).errors
          /\ response'.warnings = validate_trial_spec(response'.spec).warnings
          /\ ~response'.generation_started
          /\ generated_protocols' = generated_protocols]_vars

C11_Witness ==
    /\ response.status = 400 /\ response.op = "generate"
    /\ response.errors # <<>>
    /\ ~response.generation_started
    /\ generated_protocols = EmptyStore

----------------------------------------------------------------------------
(* Properties of the handlers over the result store (SpecStore) *)

StoreLookups ==
    {"export", "export_odm", "export_fhir", "export_csv", "get", "delete", "add_example"}

\* C12: an export (through any endpoint, in any format), a get, a delete or an
\* add-example naming a request id the store does not hold is answered 404 and
\* leaves the store and the similarity index as they were; a delete that answered
\* 200 leaves its id out of the store, so deleting the same id again is answered 404.
\* (A body of export/odm, /fhir or /csv without request_id names no id; it is
\* answered 400.)
C12_UnknownRequestIdNotFound ==
    [][/\ (/\ response'.status # 0
           /\ response'.op \in StoreLookups
           /\ response'.request_id # ""
           /\ response'.request_id \notin DOMAIN generated_protocols)
          => /\ response'.status = 404
             /\ generated_protocols' = generated_protocols
             /\ rag_index' = rag_index
       /\ (response'.status = 200 /\ response'.op = "delete")
          => response'.request_id \notin DOMAIN generated_protocols']_vars

\* a delete answered 404 for an id that had been stored (an index document still
\* names it) and was deleted before, while the store holds another result
C12_Witness ==
    /\ response.status = 404 /\ response.op = "delete"
    /\ response.request_id \notin DOMAIN generated_protocols
    /\ generated_protocols # EmptyStore
    /\ \E doc_id \in DOMAIN rag_index :
          /\ "request_id" \in DOMAIN rag_index[doc_id].metadata
          /\ rag_index[doc_id].metadata.request_id = response.request_id

\* C13: a DELETE /api/v1/rag/examples/{doc_id} naming a document the similarity
\* index does not hold is answered 404, reports no deletion, and leaves the index
\* as it was
C13_UnknownDocIdNotFound ==
    [][(/\ response'.status # 0
        /\ response'.op = "rag_delete"
        /\ response'.doc_id \notin DOMAIN rag_index)
       => /\ response'.status = 404
          /\ rag_index' = rag_index]_vars

\* C14: every step leaves each stored result in the store and equal to what it was,
\* whichever handler takes it (generate, export, list, get, add-example, seed,
\* delete of a document, delete of another result), unless the step is a DELETE of
\* that very request id answered 200, which takes it out; a get of a stored id
\* answers 200 with the stored result, and a get of an id that is not stored
\* answers 404.  (Request ids are uuid4 draws, taken as new to the store.)
C14_StoredResultStable ==
    [][/\ \A request_id \in DOMAIN generated_protocols :
            \/ /\ request_id \in DOMAIN generated_protocols'
               /\ generated_protocols'[request_id] = generated_protocols[request_id]
            \/ /\ response'.status = 200 /\ response'.op = "delete"
               /\ response'.request_id = request_id
               /\ request_id \notin DOMAIN generated_protocols'
       /\ (response'.status # 0 /\ response'.op = "get")
          => IF response'.request_id \in DOMAIN generated_protocols
             THEN /\ response'.status = 200
                  /\ response'.result = generated_protocols[response'.request_id]
                  /\ response'.result.request_id = response'.request_id
             ELSE response'.status = 404]_vars

\* a stored result read back by a get while the store holds a second result and
\* the index holds a document
C14_Witness ==
    /\ response.status = 200 /\ response.op = "get"
    /\ response.request_id \in DOMAIN generated_protocols
    /\ response.result = generated_protocols[response.request_id]
    /\ Cardinality(DOMAIN generated_protocols) = 2
    /\ rag_index # EmptyIndex

\* C15: the handlers are coroutines without an await, so requests interleave as
\* whole handlers.  In every interleaving a generate answered 201 puts exactly one
\* entry into the store, under its own request id, which the store did not hold,
\* and leaves every other entry as it was; no step but a delete of that id takes
\* an entry out; and an export answered 200 carries the export of the entry stored
\* under the id it names, which is the result generate built for that id.
\* (Request ids are uuid4 draws, taken as new to the store.)
C15_InterleavedRequestsIndependent ==
    [][/\ (response'.status = 201 /\ response'.op = "generate")
          => /\ response'.request_id \notin DOMAIN generated_protocols
             /\ DOMAIN generated_protocols' = DOMAIN generated_protocols \cup {response'.request_id}
             /\ generated_protocols'[response'.request_id].request_id = response'.request_id
             /\ generated_protocols'[response'.request_id].input_spec = response'.spec
             /\ \A k \in DOMAIN generated_protocols :
                   generated_protocols'[k] = generated_protocols[k]
       /\ (DOMAIN generated_protocols \ DOMAIN generated_protocols' # {})
          => /\ response'.status = 200 /\ response'.op = "delete"
             /\ DOMAIN generated_protocols \ DOMAIN generated_protocols' = {response'.request_id}
       /\ (response'.status = 200
           /\ response'.op \in {"export", "export_odm", "export_fhir", "export_csv"})
          => /\ response'.request_id \in DOMAIN generated_protocols
             /\ LET result == generated_protocols[response'.request_id]
                IN  /\ result.request_id = response'.request_id
                    /\ \E include_protocol \in BOOLEAN, include_crf \in BOOLEAN :
                          response'.content =
                              export(result.protocol_structured, result.crf_schema,
                                     response'.format, include_protocol, include_crf).content]_vars

\* a second result stored next to a first one of another specification, both kept
C15_Witness ==
    /\ response.status = 201 /\ response.op = "generate"
    /\ Cardinality(DOMAIN generated_protocols) = 2
    /\ \E a, b \in DOMAIN generated_protocols :
          /\ a # b
          /\ generated_protocols[a].input_spec # generated_protocols[b].input_spec
          /\ generated_protocols[a].request_id = a
          /\ generated_protocols[b].request_id = b

----------------------------------------------------------------------------
(* Properties of CRFGenerator (SpecLib) *)

FormIds(crf_schema) == {crf_schema.forms[i].form_id : i \in 1..Len(crf_schema.forms)}

\* C16: every CRF schema generate_crf_schema returns holds the forms DM, VS and AE,
\* and holds a form EFF exactly when the name of at least one endpoint of the
\* specification contains 'score', whatever the protocol and the LLM's answers.
C16_BaselineFormsAndEfficacy ==
    (last.done /\ last.crf.called /\ ~last.crf.result.raised) =>
        LET crf_schema == last.crf.result.value
        IN  /\ {"DM", "VS", "AE"} \subseteq FormIds(crf_schema)
            /\ "EFF" \in FormIds(crf_schema)
               <=> \E i \in 1..Len(last.spec.key_endpoints) :
                      ContainsScore(last.spec.key_endpoints[i].name)

\* C17: in every CRF schema generate_crf_schema returns, DM is assigned to the first
\* visit of the schedule and to no other, VS and AE to every visit, and EFF to
\* every visit but the first, whether the schedule is the template's or the LLM's.
C17_VisitFormAssignment ==
    (last.done /\ last.crf.called /\ ~last.crf.result.raised) =>
        LET visits == last.crf.result.value.visits
            Assigned(i) == Range(visits[i].forms)
        IN  \A i \in 1..Len(visits) :
               /\ "DM" \in Assigned(i) <=> i = 1
               /\ {"VS", "AE"} \subseteq Assigned(i)
               /\ "EFF" \in Assigned(i) <=> i > 1

----------------------------------------------------------------------------
(* Properties of ProtocolExporter (SpecExport) *)

ExportDone(format) == vin.kind = "export" /\ vout.done /\ vin.format = format

\* C18: an ODM-XML export with include_crf = true holds as many FormDef elements
\* as the CRF schema holds forms, and for each form id of the schema exactly one
\* FormDef of the OID FORM.<form id>, also when forms were derived by the LLM.
C18_OneFormDefPerForm ==
    (ExportDone("odm_xml") /\ vin.include_crf) =>
        LET forms == vin.crf_schema.forms
            FormDef == vout.result.content.MetaDataVersion.FormDef
        IN  /\ Len(FormDef) = Len(forms)
            /\ \A form_id \in FormIds(vin.crf_schema) :
                  Cardinality({i \in 1..Len(FormDef) : FormDef[i].OID = <<"FORM.", form_id>>}) = 1

\* the number of fields of all forms of a schema
FieldCount(crf_schema) == Len(AllFields(crf_schema.forms))

\* C19: the CSV export reads as one header row and one row per field: a CSV reader
\* finds 1 + (the number of fields of all forms) rows in the content, for every
\* CRF schema (also one with a form without fields) and every setting of
\* include_protocol and include_crf.
C19_CsvRowPerField ==
    ExportDone("csv") => CsvRowCount(vout.result.content) = 1 + FieldCount(vin.crf_schema)

\* C20: the FHIR export is a Bundle whose entries are one ResearchStudy exactly when
\* include_protocol, followed by one Questionnaire per form of the CRF schema, in
\* the order of the forms, exactly when include_crf, each Questionnaire with one
\* item per field of its form, in the order of the fields.
C20_FhirBundleShape ==
    ExportDone("fhir_json") =>
        LET bundle == vout.result.content
            forms == vin.crf_schema.forms
            np == IF vin.include_protocol THEN 1 ELSE 0
            nq == IF vin.include_crf THEN Len(forms) ELSE 0
        IN  /\ bundle.resourceType = "Bundle"
            /\ Len(bundle.entry) = np + nq
            /\ vin.include_protocol => bundle.entry[1].resource.resourceType = "ResearchStudy"
            /\ \A i \in 1..nq :
                  LET q == bundle.entry[np + i].resource
                  IN  /\ q.resourceType = "Questionnaire"
                      /\ q.id = <<vin.protocol.protocol_id, "-", forms[i].form_id>>
                      /\ Len(q.item) = Len(forms[i].fields)
                      /\ \A j \in 1..Len(q.item) : q.item[j].linkId = forms[i].fields[j].field_id

\* a bundle of a ResearchStudy and Questionnaires, one of them of an LLM-derived
\* form without fields and one of a form with fields
C20_Witness ==
    /\ ExportDone("fhir_json") /\ vin.include_protocol /\ vin.include_crf
    /\ Len(vout.result.content.entry) = 1 + Len(vin.crf_schema.forms)
    /\ \E i, k \in 1..Len(vin.crf_schema.forms) :
          /\ vin.crf_schema.forms[i].fields = <<>>
          /\ vin.crf_schema.forms[k].fields # <<>>
          /\ vout.result.content.entry[1 + i].resource.item = <<>>
          /\ vout.result.content.entry[1 + k].resource.item # <<>>

----------------------------------------------------------------------------
(* Properties of the similarity index (SpecRag) *)

\* C21: retrieve_similar_protocols on an empty collection returns the empty list,
\* raises nothing and makes no query, whatever the specification and n_results;
\* on a collection with documents what it returns has at most
\* min(n_results, number of documents) matches.
C21_EmptyIndexRetrieval ==
    [][(vout'.done /\ vout'.op = "retrieve") =>
        LET result == vout'.result
            size == get_count(rag_index)
        IN  /\ size = 0 => /\ ~result.raised
                           /\ result.value = <<>>
                           /\ result.queries = <<>>
            /\ (size > 0 /\ ~result.raised) =>
                   Len(result.value) <= Min(vout'.args.n_results, size)]_vars

\* a retrieval with n_results = 3 answered over the empty collection
C21_Witness ==
    /\ vout.done /\ vout.op = "retrieve"
    /\ rag_index = EmptyIndex
    /\ vout.args.n_results = 3
    /\ vout.result = Retrieved(FALSE, <<>>, <<>>)

\* C22: add_protocol_example returns an identifier with the prefix "protocol_" that
\* no document carried and raises the count by exactly 1; delete_protocol of an
\* identifier the collection holds returns True (collection.delete not failing) and
\* lowers the count by exactly 1, so that deleting what was just added restores the
\* count; get_protocol_by_id of an identifier the collection lacks returns None.
C22_AddThenDelete ==
    [][/\ (vout'.done /\ vout'.op = "add" /\ ~vout'.result.raised) =>
            LET doc_id == vout'.result.value
            IN  /\ doc_id[1] = "protocol_"
                /\ doc_id \notin DOMAIN rag_index
                /\ doc_id \in DOMAIN rag_index'
                /\ get_count(rag_index') = get_count(rag_index) + 1
       /\ (vout'.done /\ vout'.op = "delete" /\ vout'.args.collection_delete = "ok"
             /\ vout'.args.doc_id \in DOMAIN rag_index) =>
            /\ vout'.result.success
            /\ get_count(rag_index') = get_count(rag_index) - 1
            /\ \A outcome \in CollectionGetOutcomes :
                   get_protocol_by_id(rag_index', vout'.args.doc_id, outcome) = NoProtocol
       /\ (vout'.done /\ vout'.op = "get" /\ vout'.args.doc_id \notin DOMAIN rag_index) =>
            vout'.result = NoProtocol]_vars

\* the document added first was deleted while a second one stays
C22_Witness ==
    /\ vout.done /\ vout.op = "delete" /\ vout.result.success
    /\ vout.args.doc_id = FreshDocId(EmptyIndex)
    /\ vout.args.doc_id \notin DOMAIN rag_index
    /\ get_count(rag_index) = 1

RecordKept(doc_id) ==
    /\ doc_id \in DOMAIN rag_index'
    /\ rag_index'[doc_id] = rag_index[doc_id]

\* the step is delete_protocol(doc_id), called directly or by
\* DELETE /api/v1/rag/examples/{doc_id}
DeleteNames(doc_id) ==
    \/ vout'.done /\ vout'.op = "delete" /\ vout'.args.doc_id = doc_id
    \/ response'.status # 0 /\ response'.op = "rag_delete" /\ response'.doc_id = doc_id

----------------------------------------------------------------------------
(* Properties of the form builder (SpecCrf) *)

\* the form ids expected of the derived assessments: that of every assessment whose
\* LLM call, the one at the same position, succeeded
RECURSIVE EmittedIds(_, _)
EmittedIds(derived, calls) ==
    IF derived = <<>> \/ calls = <<>> THEN <<>>
    ELSE (IF Head(calls).ok THEN <<AssessmentId(Head(derived), "CUSTOM")>> ELSE <<>>)
         \o EmittedIds(Tail(derived), Tail(calls))

----------------------------------------------------------------------------
(* Provenance of a generated protocol (SpecLib) *)

\* C26: in every protocol generate_structured_protocol returns, every section named
\* in llm_enhanced_sections was produced by an LLM call of that section that
\* succeeded; generation_method is "llm_enhanced" or "llm_only" only if some section
\* was so produced, "rag_enhanced" only if retrieval returned an example, and
\* "template_based" only if neither happened.
C26_ProvenanceAccurate ==
    (last.done /\ ~last.protocol.raised) =>
        LET p == last.protocol.value
            Produced(section) == Call(section, TRUE) \in Range(last.calls)
            SomeProduced == \E section \in Range(AllSections) : Produced(section)
        IN  /\ \A i \in 1..Len(p.llm_enhanced_sections) : Produced(p.llm_enhanced_sections[i])
            /\ p.generation_method \in {"llm_enhanced", "llm_only"} => SomeProduced
            /\ p.generation_method = "rag_enhanced" => p.rag_protocols_used > 0
            /\ p.generation_method = "template_based" =>
                   ~SomeProduced /\ p.rag_protocols_used = 0

----------------------------------------------------------------------------
(* The template visit schedule (SpecVisits) *)

\* the schedule is the template's: no LLM, or an answer that is no JSON array
TemplateUsed == ~(GenLLM(cfg) /\ vin.o.visits.kind = "json")

\* C27: for a duration of d >= 1 weeks the template schedule is V0 "Screening" at
\* week -1, V1 at week 0, a visit "Week w" at every multiple w of 4 from 4 to d,
\* and a last "End of Study" visit at week d exactly when d is no multiple of 4;
\* the visit ids are V0, V1, ..., Vn in order, the weeks increase strictly and the
\* last visit is at week d.
C27_TemplateVisitSchedule ==
    (vin.kind = "visit_schedule" /\ vout.done /\ TemplateUsed) =>
        LET d == vin.spec.duration_weeks
            visits == vout.result
            n == Len(visits)
            follow_ups == d \div 4
            EndOfStudy == "End of Study (Week " \o ToString(d) \o ")"
        IN  /\ n = 2 + follow_ups + (IF d % 4 = 0 THEN 0 ELSE 1)
            /\ visits[1].visit_name = "Screening" /\ visits[1].week = -1
            /\ visits[2].week = 0
            /\ \A k \in 1..follow_ups :
                   /\ visits[2 + k].week = 4 * k
                   /\ visits[2 + k].visit_name = "Week " \o ToString(4 * k)
            /\ (d % 4 # 0) => visits[n].visit_name = EndOfStudy
            /\ (d % 4 = 0) => \A i \in 1..n : visits[i].visit_name # EndOfStudy
            /\ \A i \in 1..n : visits[i].visit_id = "V" \o ToString(i - 1)
            /\ \A i, j \in 1..n : i < j => visits[i].week < visits[j].week
            /\ visits[n].week = d

\* a study of 10 weeks whose LLM answer was no JSON: two follow-up visits and an
\* end-of-study visit at week 10
C27_Witness ==
    /\ vin.kind = "visit_schedule" /\ vout.done
    /\ GenLLM(cfg) /\ vin.o.visits.kind = "text"
    /\ vin.spec.duration_weeks = 10
    /\ Len(vout.result) = 5
    /\ vout.result[5].week = 10

----------------------------------------------------------------------------
(* Integrity of a generated CRF schema (SpecCrf) *)

\* C28: in every CRF schema generate_crf_schema returns, every form identifier a
\* visit definition refers to is the form_id of a form of the schema, whether or not
\* the specification has a 'score' endpoint and whatever the visit schedule.
C28_VisitFormsExist ==
    (vin.kind = "crf_schema" /\ vout.done /\ ~vout.result.crf.raised) =>
        LET crf_schema == vout.result.crf.value
        IN  \A i \in 1..Len(crf_schema.visits) :
                Range(crf_schema.visits[i].forms) \subseteq FormIds(crf_schema)

\* C29: every CRF schema generate_crf_schema returns passes validate_crf_schema
\* with no error: the forms DM and AE are present and every visit has a form
\* assigned, whatever the specification, the protocol and the LLM's answers; so a
\* generation result built of it has the status "failed" only when
\* validate_protocol reported an error.
C29_GeneratedCrfValidates ==
    (vin.kind = "crf_schema" /\ vout.done /\ ~vout.result.crf.raised) =>
        LET crf_schema == vout.result.crf.value
            crf_validation == validate_crf_schema(crf_schema)
            result == GenerationResult("REQ-0000000000A1", vin.spec, validate_trial_spec(vin.spec),
                                       vin.protocol, "template narrative", crf_schema)
        IN  /\ crf_validation.errors = <<>>
            /\ crf_validation.valid
            /\ {"DM", "AE"} \subseteq FormIds(crf_schema)
            /\ \A i \in 1..Len(crf_schema.visits) : crf_schema.visits[i].forms # <<>>
            /\ result.validation_status = "failed" =>
                   validate_protocol(vin.protocol).errors # <<>>

\* a schema with a form the LLM derived, for a protocol whose one-visit schedule
\* fails validate_protocol
C29_Witness ==
    /\ vin.kind = "crf_schema" /\ vout.done /\ ~vout.result.crf.raised
    /\ Len(vin.protocol.visit_schedule) = 1
    /\ validate_protocol(vin.protocol).errors # <<>>
    /\ Len(vout.result.crf.value.forms) > Len(_generate_standard_forms(vin.spec))
    /\ validate_crf_schema(vout.result.crf.value).errors = <<>>

\* C30: the result a 201 answer of POST /api/v1/generate stores has the status
\* "failed" exactly when validate_protocol or validate_crf_schema reported an
\* error, "warnings" exactly when neither did and validate_trial_spec,
\* validate_protocol or validate_crf_schema gave a warning, and "passed"
\* otherwise; its validation_messages are those warnings followed by those
\* errors; a failed result is answered with 201 and stored like any other.
C30_ValidationStatus ==
    [][(response'.status = 201 /\ response'.op = "generate") =>
        /\ response'.request_id \notin DOMAIN generated_protocols
        /\ response'.request_id \in DOMAIN generated_protocols'
        /\ LET result == generated_protocols'[response'.request_id]
               errors == validate_protocol(result.protocol_structured).errors
                         \o validate_crf_schema(result.crf_schema).errors
               warnings == validate_trial_spec(result.input_spec).warnings
                           \o validate_protocol(result.protocol_structured).warnings
                           \o validate_crf_schema(result.crf_schema).warnings
           IN  /\ result.validation_status \in {"failed", "warnings", "passed"}
               /\ result.validation_status = "failed" <=> errors # <<>>
               /\ result.validation_status = "warnings" <=>
                      (errors = <<>> /\ warnings # <<>>)
               /\ result.validation_status = "passed" <=>
                      (errors = <<>> /\ warnings = <<>>)
               /\ result.validation_messages = warnings \o errors]_vars

\* a 201 answer whose stored result failed validation with a warning and an error
C30_Witness ==
    /\ response.status = 201 /\ response.op = "generate"
    /\ response.request_id \in DOMAIN generated_protocols
    /\ LET result == generated_protocols[response.request_id]
       IN  /\ result.validation_status = "failed"
           /\ validate_protocol(result.protocol_structured).errors # <<>>
           /\ Len(result.validation_messages)
                  > Len(validate_protocol(result.protocol_structured).errors)

====
